---------------------------- MODULE Spec2Model ----------------------------
(***************************************************************************)
(* Model of the network D-Bus property surface of agama                    *)
(* (rust/agama-dbus-server/src/network/dbus/interfaces.rs) and of the      *)
(* progress monitor (rust/agama-lib/src/progress.rs).                      *)
(*                                                                         *)
(* Every D-Bus handler is an async fn.  A handler is cut at its await      *)
(* points: connection.lock().await, actions.lock().await and               *)
(* actions.send(..).await.  The code between two await points is one       *)
(* step.  Callers run concurrently (the handlers share Arc<Mutex<..>>      *)
(* values, so the code expects that).                                      *)
(*                                                                         *)
(* Encoding of Rust values:                                                *)
(*   String            a TLA+ string                                       *)
(*   Vec<String>       a sequence of strings                               *)
(*   Vec<u8>           a sequence of naturals                              *)
(*   Option<T>         <<>> for None, <<v>> for Some(v)                    *)
(*   Ipv4Addr          the tuple of its 4 octets                           *)
(*   Ipv6Addr          the tuple of its 8 groups                           *)
(*   IpAddress<T>      <<address, prefix>>                                 *)
(*   enum values       the variant's name as a string                      *)
(***************************************************************************)
EXTENDS Integers, Sequences, FiniteSets, TLC

None == <<>>

Some(v) == <<v>>

IsSome(o) == o # <<>>

(***************************************************************************)
(* Bounds of the model.                                                    *)
(***************************************************************************)
\* Capacity of the actions channel: send waits while the channel holds
\* QueueCap intents (an unbounded channel never makes a sender wait).
QueueCap == 2

\* Longest list a caller passes to a list-valued property in SpecSeq.
MaxLen == 2

\* The concurrent callers; each issues one call.  In Spec caller "a" makes
\* any of BasicCalls and caller "b" any of CoreCalls; in SpecSeq caller "a"
\* is alone and makes any of RichCalls.
Callers == {"a", "b"}

\* The connections exposed on the bus: 1 is an Ethernet connection, 2 a
\* Wireless one.  Every connection has the five facet adapters attached.
Conns == {1, 2}

(***************************************************************************)
(* Parsing and formatting.                                                 *)
(***************************************************************************)
\* std::net::Ipv4Addr::from_str on the strings the callers use:
\* Ok(addr) as Some(octets), Err(AddrParseError) as None.
ParseIpv4Addr(s) ==
    CASE s = "192.168.0.1" -> Some(<<192, 168, 0, 1>>)
      [] s = "10.0.0.1"    -> Some(<<10, 0, 0, 1>>)
      [] OTHER             -> None

\* Display for Ipv4Addr.
Ipv4ToString(a) ==
    CASE a = <<192, 168, 0, 1>> -> "192.168.0.1"
      [] a = <<10, 0, 0, 1>>    -> "10.0.0.1"
      [] OTHER                  -> "?"

\* std::net::Ipv6Addr::from_str: "0:0:0:0:0:0:0:1" and "::1" are the same
\* address.
ParseIpv6Addr(s) ==
    CASE s = "::1"             -> Some(<<0, 0, 0, 0, 0, 0, 0, 1>>)
      [] s = "0:0:0:0:0:0:0:1" -> Some(<<0, 0, 0, 0, 0, 0, 0, 1>>)
      [] s = "fe80::1"         -> Some(<<65152, 0, 0, 0, 0, 0, 0, 1>>)
      [] OTHER                 -> None

\* Display for Ipv6Addr (the compressed form).
Ipv6ToString(a) ==
    CASE a = <<0, 0, 0, 0, 0, 0, 0, 1>>     -> "::1"
      [] a = <<65152, 0, 0, 0, 0, 0, 0, 1>> -> "fe80::1"
      [] OTHER                              -> "?"

\* str::split_once('/') on the strings the callers use: None when the
\* string holds no '/'.
SplitOnceSlash(s) ==
    CASE s = "192.168.0.1/24" -> Some(<<"192.168.0.1", "24">>)
      [] s = "10.0.0.1/8"     -> Some(<<"10.0.0.1", "8">>)
      [] s = "10.0.0.1/x"     -> Some(<<"10.0.0.1", "x">>)
      [] s = "::1/128"        -> Some(<<"::1", "128">>)
      [] s = "fe80::1/64"     -> Some(<<"fe80::1", "64">>)
      [] s = "bogus/24"       -> Some(<<"bogus", "24">>)
      [] OTHER                -> None

\* u32::from_str on the prefixes the callers use.
ParsePrefix(s) ==
    CASE s = "8"   -> Some(8)
      [] s = "24"  -> Some(24)
      [] s = "64"  -> Some(64)
      [] s = "128" -> Some(128)
      [] OTHER     -> None

PrefixToString(n) ==
    CASE n = 8   -> "8"
      [] n = 24  -> "24"
      [] n = 64  -> "64"
      [] n = 128 -> "128"
      [] OTHER   -> "?"

\* IpAddress<T>::from_str for T = Ipv4Addr: "address/prefix", both parts
\* must parse.
ParseIpAddress4(s) ==
    LET parts == SplitOnceSlash(s) IN
    IF parts = None THEN None
    ELSE LET addr   == ParseIpv4Addr(parts[1][1])
             prefix == ParsePrefix(parts[1][2])
         IN  IF addr = None \/ prefix = None THEN None
             ELSE Some(<<addr[1], prefix[1]>>)

\* IpAddress<T>::from_str for T = Ipv6Addr.
ParseIpAddress6(s) ==
    LET parts == SplitOnceSlash(s) IN
    IF parts = None THEN None
    ELSE LET addr   == ParseIpv6Addr(parts[1][1])
             prefix == ParsePrefix(parts[1][2])
         IN  IF addr = None \/ prefix = None THEN None
             ELSE Some(<<addr[1], prefix[1]>>)

\* Display for IpAddress<Ipv4Addr> and IpAddress<Ipv6Addr>.
IpAddress4ToString(ip) == Ipv4ToString(ip[1]) \o "/" \o PrefixToString(ip[2])

IpAddress6ToString(ip) == Ipv6ToString(ip[1]) \o "/" \o PrefixToString(ip[2])

\* IpMethod::from_str: the D-Bus vocabulary to the enum.
ParseIpMethod(s) ==
    CASE s = "disabled"   -> Some("Disabled")
      [] s = "auto"       -> Some("Auto")
      [] s = "manual"     -> Some("Manual")
      [] s = "link-local" -> Some("LinkLocal")
      [] OTHER            -> None

\* Display for IpMethod.
IpMethodToString(m) ==
    CASE m = "Disabled"  -> "disabled"
      [] m = "Auto"      -> "auto"
      [] m = "Manual"    -> "manual"
      [] m = "LinkLocal" -> "link-local"

\* WirelessMode::try_from(&str).
ParseWirelessMode(s) ==
    CASE s = "unknown"        -> Some("Unknown")
      [] s = "adhoc"          -> Some("AdHoc")
      [] s = "infrastructure" -> Some("Infra")
      [] s = "ap"             -> Some("AP")
      [] s = "mesh"           -> Some("Mesh")
      [] OTHER                -> None

\* Display for WirelessMode.
WirelessModeToString(m) ==
    CASE m = "Unknown" -> "unknown"
      [] m = "AdHoc"   -> "adhoc"
      [] m = "Infra"   -> "infrastructure"
      [] m = "AP"      -> "ap"
      [] m = "Mesh"    -> "mesh"

\* SecurityProtocol::try_from(&str).
ParseSecurityProtocol(s) ==
    CASE s = "none"               -> Some("WEP")
      [] s = "owe"                -> Some("OWE")
      [] s = "ieee8021x"          -> Some("DynamicWEP")
      [] s = "wpa-psk"            -> Some("WPA2")
      [] s = "sae"                -> Some("WPA3Personal")
      [] s = "wpa-eap"            -> Some("WPA2Enterprise")
      [] s = "wpa-eap-suite-b192" -> Some("WPA3Only")
      [] OTHER                    -> None

\* Display for SecurityProtocol.
SecurityProtocolToString(p) ==
    CASE p = "WEP"            -> "none"
      [] p = "OWE"            -> "owe"
      [] p = "DynamicWEP"     -> "ieee8021x"
      [] p = "WPA2"           -> "wpa-psk"
      [] p = "WPA3Personal"   -> "sae"
      [] p = "WPA2Enterprise" -> "wpa-eap"
      [] p = "WPA3Only"       -> "wpa-eap-suite-b192"

\* DeviceType::try_from(u8): 0 = loopback, 1 = ethernet, 2 = wireless.
ParseDeviceType(n) ==
    CASE n = 0 -> Some("Loopback")
      [] n = 1 -> Some("Ethernet")
      [] n = 2 -> Some("Wireless")
      [] OTHER -> None


(***************************************************************************)
(* The configuration model: NetworkConnection and its parts.               *)
(***************************************************************************)
\* The wireless part of a connection that is not of the Wireless variant:
\* the Ethernet variant has no such part, and no handler reaches it.
NoWireless == [ssid |-> <<>>, mode |-> "-", password |-> None, security |-> "-"]

\* The connections the service starts with.
InitialConnection(c) ==
    IF c = 1
    THEN [kind      |-> "Ethernet",
          id        |-> "eth0",
          interface |-> "eth0",
          match     |-> [driver |-> <<>>, path |-> <<>>,
                         interface |-> <<>>, kernel |-> <<>>],
          ipv4      |-> [addresses   |-> << <<(<<192, 168, 0, 1>>), 24>> >>,
                         method      |-> "Manual",
                         nameservers |-> << <<10, 0, 0, 1>> >>,
                         gateway     |-> Some(<<192, 168, 0, 1>>)],
          ipv6      |-> [addresses |-> <<>>, method |-> "Auto",
                         nameservers |-> <<>>, gateway |-> None],
          wireless  |-> NoWireless]
    ELSE [kind      |-> "Wireless",
          id        |-> "wlan0",
          interface |-> "",
          match     |-> [driver |-> <<"iwlwifi">>, path |-> <<>>,
                         interface |-> <<>>, kernel |-> <<>>],
          ipv4      |-> [addresses |-> <<>>, method |-> "Auto",
                         nameservers |-> <<>>, gateway |-> None],
          ipv6      |-> [addresses   |-> << <<(<<0, 0, 0, 0, 0, 0, 0, 1>>), 128>> >>,
                         method      |-> "Manual",
                         nameservers |-> << <<0, 0, 0, 0, 0, 0, 0, 1>> >>,
                         gateway     |-> Some(<<65152, 0, 0, 0, 0, 0, 0, 1>>)],
          wireless  |-> [ssid |-> <<104, 105>>, mode |-> "Infra",
                         password |-> Some("secret"), security |-> "WPA2"]]

\* The outcome of the synchronous part of a setter: the connection it
\* leaves and whether it got past validation (ok = FALSE: the ? operator
\* returned the error).
Done(cn) == [ok |-> TRUE, conn |-> cn]

Failed(cn) == [ok |-> FALSE, conn |-> cn]

\* addresses.into_iter().filter_map(|ip| ip.parse::<IpAddress<Ipv4Addr>>().ok())
RECURSIVE FilterMapIpAddress4(_)
FilterMapIpAddress4(l) ==
    IF l = <<>> THEN <<>>
    ELSE LET r == ParseIpAddress4(Head(l)) IN
         (IF r = None THEN <<>> ELSE <<r[1]>>) \o FilterMapIpAddress4(Tail(l))

RECURSIVE FilterMapIpAddress6(_)
FilterMapIpAddress6(l) ==
    IF l = <<>> THEN <<>>
    ELSE LET r == ParseIpAddress6(Head(l)) IN
         (IF r = None THEN <<>> ELSE <<r[1]>>) \o FilterMapIpAddress6(Tail(l))

\* addresses.iter().map(|a| a.parse::<Ipv4Addr>()).collect::<Result<Vec<_>, _>>():
\* Some(list) when every entry parses, None at the first that does not.
RECURSIVE CollectIpv4Addr(_)
CollectIpv4Addr(l) ==
    IF l = <<>> THEN Some(<<>>)
    ELSE LET h == ParseIpv4Addr(Head(l)) IN
         IF h = None THEN None
         ELSE LET t == CollectIpv4Addr(Tail(l)) IN
              IF t = None THEN None ELSE Some(<<h[1]>> \o t[1])

RECURSIVE CollectIpv6Addr(_)
CollectIpv6Addr(l) ==
    IF l = <<>> THEN Some(<<>>)
    ELSE LET h == ParseIpv6Addr(Head(l)) IN
         IF h = None THEN None
         ELSE LET t == CollectIpv6Addr(Tail(l)) IN
              IF t = None THEN None ELSE Some(<<h[1]>> \o t[1])

(***************************************************************************)
(* The synchronous body of each property setter, between the lock of the   *)
(* connection and the call of update_connection.                           *)
(***************************************************************************)
\* A set_interface that reports success without storing the name.
Connection_set_interface_Lost(cn, name) == Done(cn)

Connection_set_interface(cn, name) == Done([cn EXCEPT !.interface = name])

Match_set_driver(cn, driver) == Done([cn EXCEPT !.match.driver = driver])

Match_set_path(cn, path) == Done([cn EXCEPT !.match.path = path])

Match_set_interface(cn, interface) == Done([cn EXCEPT !.match.interface = interface])

Match_set_kernel(cn, kernel) == Done([cn EXCEPT !.match.kernel = kernel])

\* A setter that rejects the whole list when one entry does not parse.
Ipv4_set_addresses_Strict(cn, addresses) ==
    IF Len(FilterMapIpAddress4(addresses)) # Len(addresses) THEN Failed(cn)
    ELSE Done([cn EXCEPT !.ipv4.addresses = FilterMapIpAddress4(addresses)])

Ipv4_set_addresses(cn, addresses) ==
    Done([cn EXCEPT !.ipv4.addresses = FilterMapIpAddress4(addresses)])

\* A set_method that also drops the gateway.
Ipv4_set_method_DroppingGateway(cn, method) ==
    IF IsSome(ParseIpMethod(method))
    THEN Done([cn EXCEPT !.ipv4.method = ParseIpMethod(method)[1],
                         !.ipv4.gateway = None])
    ELSE Failed(cn)

Ipv4_set_method(cn, method) ==
    LET parsed == ParseIpMethod(method) IN
    IF parsed = None THEN Failed(cn)
    ELSE Done([cn EXCEPT !.ipv4.method = parsed[1]])

\* A setter that keeps the entries that parse and drops the others.
Ipv4_set_nameservers_Lenient(cn, addresses) ==
    Done([cn EXCEPT !.ipv4.nameservers =
             LET ok == SelectSeq(addresses, LAMBDA s : IsSome(ParseIpv4Addr(s)))
             IN  [i \in 1..Len(ok) |-> ParseIpv4Addr(ok[i])[1]]])

Ipv4_set_nameservers(cn, addresses) ==
    LET parsed == CollectIpv4Addr(addresses) IN
    IF parsed = None THEN Failed(cn)
    ELSE Done([cn EXCEPT !.ipv4.nameservers = parsed[1]])

\* A set_gateway that parses the empty string like any other value.
Ipv4_set_gateway_NoClear(cn, gateway) ==
    IF IsSome(ParseIpv4Addr(gateway))
    THEN Done([cn EXCEPT !.ipv4.gateway = ParseIpv4Addr(gateway)])
    ELSE Failed(cn)

Ipv4_set_gateway(cn, gateway) ==
    IF gateway = "" THEN Done([cn EXCEPT !.ipv4.gateway = None])
    ELSE LET parsed == ParseIpv4Addr(gateway) IN
         IF parsed = None THEN Failed(cn)
         ELSE Done([cn EXCEPT !.ipv4.gateway = Some(parsed[1])])

Ipv6_set_addresses(cn, addresses) ==
    Done([cn EXCEPT !.ipv6.addresses = FilterMapIpAddress6(addresses)])

Ipv6_set_method(cn, method) ==
    LET parsed == ParseIpMethod(method) IN
    IF parsed = None THEN Failed(cn)
    ELSE Done([cn EXCEPT !.ipv6.method = parsed[1]])

Ipv6_set_nameservers(cn, addresses) ==
    LET parsed == CollectIpv6Addr(addresses) IN
    IF parsed = None THEN Failed(cn)
    ELSE Done([cn EXCEPT !.ipv6.nameservers = parsed[1]])

Ipv6_set_gateway(cn, gateway) ==
    IF gateway = "" THEN Done([cn EXCEPT !.ipv6.gateway = None])
    ELSE LET parsed == ParseIpv6Addr(gateway) IN
         IF parsed = None THEN Failed(cn)
         ELSE Done([cn EXCEPT !.ipv6.gateway = Some(parsed[1])])

Wireless_set_ssid(cn, ssid) == Done([cn EXCEPT !.wireless.ssid = ssid])

Wireless_set_mode(cn, mode) ==
    LET parsed == ParseWirelessMode(mode) IN
    IF parsed = None THEN Failed(cn)
    ELSE Done([cn EXCEPT !.wireless.mode = parsed[1]])

\* A set_password that stores the empty string as a password.
Wireless_set_password_KeepingEmpty(cn, password) ==
    Done([cn EXCEPT !.wireless.password = Some(password)])

Wireless_set_password(cn, password) ==
    Done([cn EXCEPT !.wireless.password =
                        IF password = "" THEN None ELSE Some(password)])

Wireless_set_security(cn, security) ==
    LET parsed == ParseSecurityProtocol(security) IN
    IF parsed = None THEN Failed(cn)
    ELSE Done([cn EXCEPT !.wireless.security = parsed[1]])


(***************************************************************************)
(* The property getters: the value each returns for a connection.          *)
(***************************************************************************)
RetS(s) == [st |-> "ok", s |-> s, l |-> <<>>, b |-> <<>>]

RetL(l) == [st |-> "ok", s |-> "", l |-> l, b |-> <<>>]

RetB(b) == [st |-> "ok", s |-> "", l |-> <<>>, b |-> b]

RetStatus(st) == [st |-> st, s |-> "", l |-> <<>>, b |-> <<>>]

NoRet == RetStatus("none")

Connection_id(cn) == RetS(cn.id)

Connection_interface(cn) == RetS(cn.interface)

Match_driver(cn) == RetL(cn.match.driver)

Match_path(cn) == RetL(cn.match.path)

Match_interface(cn) == RetL(cn.match.interface)

Match_kernel(cn) == RetL(cn.match.kernel)

Ipv4_addresses(cn) ==
    RetL([i \in 1..Len(cn.ipv4.addresses) |-> IpAddress4ToString(cn.ipv4.addresses[i])])

Ipv4_method(cn) == RetS(IpMethodToString(cn.ipv4.method))

Ipv4_nameservers(cn) ==
    RetL([i \in 1..Len(cn.ipv4.nameservers) |-> Ipv4ToString(cn.ipv4.nameservers[i])])

Ipv4_gateway(cn) ==
    RetS(IF IsSome(cn.ipv4.gateway) THEN Ipv4ToString(cn.ipv4.gateway[1]) ELSE "")

Ipv6_addresses(cn) ==
    RetL([i \in 1..Len(cn.ipv6.addresses) |-> IpAddress6ToString(cn.ipv6.addresses[i])])

Ipv6_method(cn) == RetS(IpMethodToString(cn.ipv6.method))

Ipv6_nameservers(cn) ==
    RetL([i \in 1..Len(cn.ipv6.nameservers) |-> Ipv6ToString(cn.ipv6.nameservers[i])])

Ipv6_gateway(cn) ==
    RetS(IF IsSome(cn.ipv6.gateway) THEN Ipv6ToString(cn.ipv6.gateway[1]) ELSE "")

Wireless_ssid(cn) == RetB(cn.wireless.ssid)

Wireless_mode(cn) == RetS(WirelessModeToString(cn.wireless.mode))

Wireless_password(cn) ==
    RetS(IF IsSome(cn.wireless.password) THEN cn.wireless.password[1] ELSE "")

Wireless_security(cn) == RetS(SecurityProtocolToString(cn.wireless.security))

(***************************************************************************)
(* The Object Path Registry: the paths of the devices and, by id, of the   *)
(* connections, each in the order of registration.  A path is the string   *)
(* form of an object path.                                                 *)
(***************************************************************************)
DevicePath0 == "/org/opensuse/Agama1/Network/devices/0"

DevicePath1 == "/org/opensuse/Agama1/Network/devices/1"

ConnectionPath0 == "/org/opensuse/Agama1/Network/connections/0"

ConnectionPath1 == "/org/opensuse/Agama1/Network/connections/1"

ConnectionPath2 == "/org/opensuse/Agama1/Network/connections/2"

InitialRegistry ==
    [devices     |-> <<DevicePath0, DevicePath1>>,
     connections |-> <<[id |-> "eth0", path |-> ConnectionPath0],
                       [id |-> "wlan0", path |-> ConnectionPath1]>>]

\* ObjectPath::try_from(String): the string must have the syntax of an
\* object path.
ObjectPathTryFrom(s) ==
    IF s \in {DevicePath0, DevicePath1, ConnectionPath0, ConnectionPath1, ConnectionPath2}
    THEN Some(s)
    ELSE None

\* ObjectsRegistry::devices_paths, connections_paths and connection_path.
devices_paths(reg) == reg.devices

connections_paths(reg) ==
    [i \in 1..Len(reg.connections) |-> reg.connections[i].path]

connection_path(reg, id) ==
    IF \E i \in 1..Len(reg.connections) : reg.connections[i].id = id
    THEN Some(reg.connections[CHOOSE i \in 1..Len(reg.connections) :
                                  reg.connections[i].id = id].path)
    ELSE None

\* iter().filter_map(|c| ObjectPath::try_from(c.clone()).ok()).collect()
RECURSIVE FilterMapObjectPath(_)
FilterMapObjectPath(l) ==
    IF l = <<>> THEN <<>>
    ELSE LET o == ObjectPathTryFrom(Head(l))
         IN  (IF IsSome(o) THEN <<o[1]>> ELSE <<>>) \o FilterMapObjectPath(Tail(l))

Devices_get_devices(reg) == RetL(FilterMapObjectPath(devices_paths(reg)))

\* A get_connections that leaves out the first path of the registry.
Connections_get_connections_SkippingFirst(reg) ==
    RetL(IF connections_paths(reg) = <<>> THEN <<>>
         ELSE FilterMapObjectPath(Tail(connections_paths(reg))))

Connections_get_connections(reg) == RetL(FilterMapObjectPath(connections_paths(reg)))

\* A get_connection that answers with the path of the first connection
\* when the id is not registered.
Connections_get_connection_Defaulting(reg, id) ==
    IF IsSome(connection_path(reg, id)) THEN RetS(connection_path(reg, id)[1])
    ELSE IF reg.connections = <<>> THEN RetStatus("unknown_connection")
    ELSE RetS(reg.connections[1].path)

Connections_get_connection(reg, id) ==
    IF IsSome(connection_path(reg, id)) THEN RetS(connection_path(reg, id)[1])
    ELSE RetStatus("unknown_connection")

\* The backend's update of the registry for an intent it processes: an
\* added connection is registered under a new path, a removed one is
\* unregistered, and nothing else changes the registry.
PathOfNew(reg) ==
    CASE Len(reg.connections) = 0 -> ConnectionPath0
      [] Len(reg.connections) = 1 -> ConnectionPath1
      [] OTHER                    -> ConnectionPath2

Registered(reg, act) ==
    CASE act.type = "AddConnection" /\ ~IsSome(connection_path(reg, act.id)) ->
             [reg EXCEPT !.connections =
                 Append(@, [id |-> act.id, path |-> PathOfNew(reg)])]
      [] act.type = "RemoveConnection" ->
             [reg EXCEPT !.connections = SelectSeq(@, LAMBDA e : e.id # act.id)]
      [] OTHER -> reg

\* What a caller that reads the registry finds: the registry, how many
\* intents the backend had processed, and the calls that had returned.
Seen(reg, n, after) == [reg |-> reg, n |-> n, after |-> after]

(***************************************************************************)
(* Calls: the handler called (op), the connection whose adapter receives   *)
(* the call (c, 0 for the Connections object) and the arguments: s a       *)
(* string, l a list of strings, b a list of bytes, n a u8.                 *)
(***************************************************************************)
ConnectionGetters == {"Connection.id", "Connection.interface"}

ConnectionSetters == {"Connection.set_interface"}

MatchGetters == {"Match.driver", "Match.path", "Match.interface", "Match.kernel"}

MatchSetters ==
    {"Match.set_driver", "Match.set_path", "Match.set_interface", "Match.set_kernel"}

Ipv4Getters == {"Ipv4.addresses", "Ipv4.method", "Ipv4.nameservers", "Ipv4.gateway"}

Ipv4Setters ==
    {"Ipv4.set_addresses", "Ipv4.set_method", "Ipv4.set_nameservers", "Ipv4.set_gateway"}

Ipv6Getters == {"Ipv6.addresses", "Ipv6.method", "Ipv6.nameservers", "Ipv6.gateway"}

Ipv6Setters ==
    {"Ipv6.set_addresses", "Ipv6.set_method", "Ipv6.set_nameservers", "Ipv6.set_gateway"}

WirelessGetters ==
    {"Wireless.ssid", "Wireless.mode", "Wireless.password", "Wireless.security"}

WirelessSetters ==
    {"Wireless.set_ssid", "Wireless.set_mode", "Wireless.set_password",
     "Wireless.set_security"}

Getters ==
    ConnectionGetters \cup MatchGetters \cup Ipv4Getters \cup Ipv6Getters
        \cup WirelessGetters

Setters ==
    ConnectionSetters \cup MatchSetters \cup Ipv4Setters \cup Ipv6Setters
        \cup WirelessSetters

WirelessOps == WirelessGetters \cup WirelessSetters

QueueOps ==
    {"Connections.add_connection", "Connections.remove_connection", "Connections.apply"}

RegistryOps ==
    {"Devices.get_devices", "Connections.get_connections", "Connections.get_connection"}

\* The adapter object (interface struct) that serves a call: each adapter
\* owns its Arc<Mutex<Sender<Action>>>, created in its new().
Facet(op) ==
    CASE op \in ConnectionGetters \cup ConnectionSetters -> "Connection"
      [] op \in MatchGetters \cup MatchSetters           -> "Match"
      [] op \in Ipv4Getters \cup Ipv4Setters             -> "Ipv4"
      [] op \in Ipv6Getters \cup Ipv6Setters             -> "Ipv6"
      [] op \in WirelessOps                              -> "Wireless"
      [] OTHER                                           -> "Connections"

Adapters ==
    ({"Connection", "Match", "Ipv4", "Ipv6", "Wireless"} \X Conns)
        \cup {<<"Connections", 0>>}

NoAdapter == <<"-", 0>>

AdapterOf(k) == <<Facet(k.op), k.c>>

MkCall(op, c, s, l, b, n) == [op |-> op, c |-> c, s |-> s, l |-> l, b |-> b, n |-> n]

NoCall == MkCall("-", 0, "", <<>>, <<>>, 0)

\* The getter named by a call, applied to the connection.
Getter(k, cn) ==
    CASE k.op = "Connection.id"        -> Connection_id(cn)
      [] k.op = "Connection.interface" -> Connection_interface(cn)
      [] k.op = "Match.driver"         -> Match_driver(cn)
      [] k.op = "Match.path"           -> Match_path(cn)
      [] k.op = "Match.interface"      -> Match_interface(cn)
      [] k.op = "Match.kernel"         -> Match_kernel(cn)
      [] k.op = "Ipv4.addresses"       -> Ipv4_addresses(cn)
      [] k.op = "Ipv4.method"          -> Ipv4_method(cn)
      [] k.op = "Ipv4.nameservers"     -> Ipv4_nameservers(cn)
      [] k.op = "Ipv4.gateway"         -> Ipv4_gateway(cn)
      [] k.op = "Ipv6.addresses"       -> Ipv6_addresses(cn)
      [] k.op = "Ipv6.method"          -> Ipv6_method(cn)
      [] k.op = "Ipv6.nameservers"     -> Ipv6_nameservers(cn)
      [] k.op = "Ipv6.gateway"         -> Ipv6_gateway(cn)
      [] k.op = "Wireless.ssid"        -> Wireless_ssid(cn)
      [] k.op = "Wireless.mode"        -> Wireless_mode(cn)
      [] k.op = "Wireless.password"    -> Wireless_password(cn)
      [] k.op = "Wireless.security"    -> Wireless_security(cn)

\* The setter named by a call, applied to the connection with the call's
\* argument.
Setter(k, cn) ==
    CASE k.op = "Connection.set_interface" -> Connection_set_interface(cn, k.s)
      [] k.op = "Match.set_driver"         -> Match_set_driver(cn, k.l)
      [] k.op = "Match.set_path"           -> Match_set_path(cn, k.l)
      [] k.op = "Match.set_interface"      -> Match_set_interface(cn, k.l)
      [] k.op = "Match.set_kernel"         -> Match_set_kernel(cn, k.l)
      [] k.op = "Ipv4.set_addresses"       -> Ipv4_set_addresses(cn, k.l)
      [] k.op = "Ipv4.set_method"          -> Ipv4_set_method(cn, k.s)
      [] k.op = "Ipv4.set_nameservers"     -> Ipv4_set_nameservers(cn, k.l)
      [] k.op = "Ipv4.set_gateway"         -> Ipv4_set_gateway(cn, k.s)
      [] k.op = "Ipv6.set_addresses"       -> Ipv6_set_addresses(cn, k.l)
      [] k.op = "Ipv6.set_method"          -> Ipv6_set_method(cn, k.s)
      [] k.op = "Ipv6.set_nameservers"     -> Ipv6_set_nameservers(cn, k.l)
      [] k.op = "Ipv6.set_gateway"         -> Ipv6_set_gateway(cn, k.s)
      [] k.op = "Wireless.set_ssid"        -> Wireless_set_ssid(cn, k.b)
      [] k.op = "Wireless.set_mode"        -> Wireless_set_mode(cn, k.s)
      [] k.op = "Wireless.set_password"    -> Wireless_set_password(cn, k.s)
      [] k.op = "Wireless.set_security"    -> Wireless_set_security(cn, k.s)


(***************************************************************************)
(* The arguments the callers pass.                                         *)
(***************************************************************************)
SeqsUpTo(S, n) == UNION {[1..k -> S] : k \in 0..n}

StrArg(s) == <<s, <<>>, <<>>, 0>>

ListArg(l) == <<"", l, <<>>, 0>>

BytesArg(b) == <<"", <<>>, b, 0>>

NoArg == <<"", <<>>, <<>>, 0>>

\* The arguments of the concurrent callers of Spec: for every setter one
\* value that passes validation and, where the field is validated, one
\* that does not.
BasicArgs(op) ==
    CASE op \in Getters                -> {NoArg}
      [] op = "Connection.set_interface" -> {StrArg("eth1")}
      [] op \in MatchSetters           -> {ListArg(<<"e1000">>)}
      [] op = "Ipv4.set_addresses"     -> {ListArg(<<"10.0.0.1/8", "bogus/24">>)}
      [] op = "Ipv6.set_addresses"     -> {ListArg(<<"fe80::1/64", "10.0.0.1/8">>)}
      [] op = "Ipv4.set_method"        -> {StrArg("link-local"), StrArg("bogus")}
      [] op = "Ipv6.set_method"        -> {StrArg("disabled"), StrArg("bogus")}
      [] op = "Ipv4.set_nameservers"   ->
             {ListArg(<<"192.168.0.1">>), ListArg(<<"192.168.0.1", "::1">>)}
      [] op = "Ipv6.set_nameservers"   ->
             {ListArg(<<"fe80::1">>), ListArg(<<"fe80::1", "10.0.0.1">>)}
      [] op = "Ipv4.set_gateway"       -> {StrArg("10.0.0.1"), StrArg("::1")}
      [] op = "Ipv6.set_gateway"       -> {StrArg("::1"), StrArg("10.0.0.1")}
      [] op = "Wireless.set_ssid"      -> {BytesArg(<<97>>)}
      [] op = "Wireless.set_mode"      -> {StrArg("ap"), StrArg("bogus")}
      [] op = "Wireless.set_password"  -> {StrArg("hunter2")}
      [] op = "Wireless.set_security"  -> {StrArg("sae"), StrArg("bogus")}

\* The arguments of the single caller of SpecSeq: every word of the
\* vocabularies, addresses of both families, and lists of up to MaxLen
\* entries that mix entries that parse with entries that do not.
RichArgs(op) ==
    CASE op \in Getters                -> {NoArg}
      [] op = "Connection.set_interface" -> {StrArg(""), StrArg("eth1")}
      [] op \in MatchSetters           ->
             {ListArg(l) : l \in SeqsUpTo({"e1000", "virtio"}, MaxLen)}
      [] op = "Ipv4.set_addresses"     ->
             {ListArg(l) : l \in SeqsUpTo({"192.168.0.1/24", "10.0.0.1/8", "10.0.0.1/x",
                                           "::1/128", "10.0.0.1"}, MaxLen)}
      [] op = "Ipv6.set_addresses"     ->
             {ListArg(l) : l \in SeqsUpTo({"::1/128", "fe80::1/64", "bogus/24",
                                           "10.0.0.1/8", "::1"}, MaxLen)}
      [] op \in {"Ipv4.set_method", "Ipv6.set_method"} ->
             {StrArg(s) : s \in {"disabled", "auto", "manual", "link-local", "bogus", ""}}
      [] op = "Ipv4.set_nameservers"   ->
             {ListArg(l) : l \in SeqsUpTo({"192.168.0.1", "10.0.0.1", "::1", "bogus"},
                                          MaxLen)}
      [] op = "Ipv6.set_nameservers"   ->
             {ListArg(l) : l \in SeqsUpTo({"::1", "0:0:0:0:0:0:0:1", "fe80::1",
                                           "10.0.0.1"}, MaxLen)}
      [] op = "Ipv4.set_gateway"       ->
             {StrArg(s) : s \in {"", "10.0.0.1", "192.168.0.1", "::1", "bogus"}}
      [] op = "Ipv6.set_gateway"       ->
             {StrArg(s) : s \in {"", "fe80::1", "0:0:0:0:0:0:0:1", "10.0.0.1", "bogus"}}
      [] op = "Wireless.set_ssid"      ->
             {BytesArg(b) : b \in SeqsUpTo({0, 97}, MaxLen)}
      [] op = "Wireless.set_mode"      ->
             {StrArg(s) : s \in {"unknown", "adhoc", "infrastructure", "ap", "mesh",
                                 "bogus"}}
      [] op = "Wireless.set_password"  -> {StrArg(""), StrArg("hunter2")}
      [] op = "Wireless.set_security"  ->
             {StrArg(s) : s \in {"none", "owe", "ieee8021x", "wpa-psk", "sae", "wpa-eap",
                                 "wpa-eap-suite-b192", "bogus"}}

\* The calls on the Connections object that enqueue an intent.
QueueCalls ==
    {MkCall("Connections.add_connection", 0, "eth-test", <<>>, <<>>, n) : n \in {1, 7}}
        \cup {MkCall("Connections.remove_connection", 0, "eth0", <<>>, <<>>, 0),
              MkCall("Connections.apply", 0, "", <<>>, <<>>, 0)}

\* The calls that read the registry.
RegistryCalls ==
    {MkCall("Devices.get_devices", 0, "", <<>>, <<>>, 0),
     MkCall("Connections.get_connections", 0, "", <<>>, <<>>, 0)}
        \cup {MkCall("Connections.get_connection", 0, id, <<>>, <<>>, 0) :
                 id \in {"eth0", "eth-test", "missing-id"}}

BasicCalls ==
    {MkCall(op, c, a[1], a[2], a[3], a[4]) :
        <<op, c, a>> \in UNION {{<<op, c, a>> : a \in BasicArgs(op)} :
                                   <<op, c>> \in (Getters \cup Setters) \X Conns}}
        \cup QueueCalls

\* The calls of the second concurrent caller: a write through three
\* different adapters (with values other than those of BasicCalls), a read,
\* and Apply.
CoreCalls ==
    {MkCall("Connection.set_interface", c, "wlan1", <<>>, <<>>, 0) : c \in Conns}
        \cup {MkCall("Ipv4.set_method", c, "disabled", <<>>, <<>>, 0) : c \in Conns}
        \cup {MkCall("Connection.interface", c, "", <<>>, <<>>, 0) : c \in Conns}
        \cup {MkCall("Wireless.set_password", 2, "", <<>>, <<>>, 0),
              MkCall("Connections.apply", 0, "", <<>>, <<>>, 0)}
        \cup RegistryCalls

\* The calls of the writer of SpecRW: every setter with the arguments of
\* BasicArgs, the writes that clear a field, and the calls that enqueue.
WriteCalls ==
    {MkCall(op, c, a[1], a[2], a[3], a[4]) :
        <<op, c, a>> \in UNION {{<<op, c, a>> : a \in BasicArgs(op)} :
                                   <<op, c>> \in Setters \X Conns}}
        \cup {MkCall(op, c, "", <<>>, <<>>, 0) :
                 <<op, c>> \in {"Ipv4.set_gateway", "Ipv6.set_gateway",
                                "Wireless.set_password"} \X Conns}
        \cup QueueCalls

\* The calls of the reader of SpecRW: every getter and the registry reads.
ReadCalls ==
    {MkCall(op, c, "", <<>>, <<>>, 0) : <<op, c>> \in Getters \X Conns}
        \cup RegistryCalls

RichCalls ==
    {MkCall(op, c, a[1], a[2], a[3], a[4]) :
        <<op, c, a>> \in UNION {{<<op, c, a>> : a \in RichArgs(op)} :
                                   <<op, c>> \in (Getters \cup Setters) \X Conns}}
        \cup QueueCalls \cup RegistryCalls
        \cup {MkCall("Connections.add_connection", 0, id, <<>>, <<>>, n) :
                 <<id, n>> \in {"wlan-test", ""} \X {0, 2, 3, 255}}


(***************************************************************************)
(* Actions (intents) sent to the backend.                                  *)
(***************************************************************************)
NoConnection ==
    [kind      |-> "-",
     id        |-> "",
     interface |-> "",
     match     |-> [driver |-> <<>>, path |-> <<>>, interface |-> <<>>, kernel |-> <<>>],
     ipv4      |-> [addresses |-> <<>>, method |-> "-", nameservers |-> <<>>,
                    gateway |-> None],
     ipv6      |-> [addresses |-> <<>>, method |-> "-", nameservers |-> <<>>,
                    gateway |-> None],
     wireless  |-> NoWireless]

ActionAddConnection(id, ty) ==
    [type |-> "AddConnection", id |-> id, ty |-> ty, conn |-> NoConnection]

ActionRemoveConnection(id) ==
    [type |-> "RemoveConnection", id |-> id, ty |-> "-", conn |-> NoConnection]

ActionUpdateConnection(cn) ==
    [type |-> "UpdateConnection", id |-> "", ty |-> "-", conn |-> cn]

ActionApply == [type |-> "Apply", id |-> "", ty |-> "-", conn |-> NoConnection]

NoAction == [type |-> "-", id |-> "", ty |-> "-", conn |-> NoConnection]

(***************************************************************************)
(* State.                                                                  *)
(***************************************************************************)
VARIABLES
    conn,        \* conn[c]: the NetworkConnection inside Arc<Mutex<..>> of connection c
    connLock,    \* connLock[c]: the futures Mutex of connection c is locked
    guard,       \* guard[p]: the connection whose MutexGuard caller p owns, or 0
    senderLock,  \* senderLock[a]: the Mutex<Sender<Action>> of adapter a is locked
    sguard,      \* sguard[p]: the adapter whose sender guard caller p owns, or NoAdapter
    pc,          \* pc[p]: where caller p is in its handler
    call,        \* call[p]: the call caller p makes
    ret,         \* ret[p]: what the call returned ("none" while it runs)
    msg,         \* msg[p]: the Action caller p has built and is sending
    queue,       \* the intents in the channel
    closed,      \* the channel is closed: the backend dropped the receiver
    delivered,   \* the intents the backend has received, in order
    pre,         \* history: pre[p] is conn[c] when p locked connection c
    committed,   \* history: committed[p] is conn[c] right after p's mutation
    post,        \* history: post[p] is conn[c] when p released connection c
    lockLog,     \* history: the callers in the order they locked a connection
    commitLog,   \* history: the callers in the order they mutated a connection
    enqLog,      \* history: the intents in the order they were enqueued
    objects,     \* the ObjectsRegistry inside Arc<Mutex<..>>
    processed,   \* how many of the delivered intents the backend has processed
    seen,        \* history: seen[p] is the registry when p read it, processed
                 \* then, and the callers whose call had returned by then (for
                 \* a call that does not read the registry: when it was made)
    mpc,         \* where ProgressMonitor::run is
    manager,     \* the progress the manager service reports
    software,    \* the progress the software service reports
    reachable,   \* the services answer the reads of their progress
    subscribed,  \* build_stream has subscribed to the changes
    changes,     \* the items of the change stream that run has not taken yet
    ended,       \* the change streams have ended
    emitted,     \* how many changes the services have made
    consumed,    \* history: the items run has taken and the progress it read
    presented,   \* history: the calls run has made on the presenter
    result       \* what run returned ("none" while it runs)

(***************************************************************************)
(* The progress monitor (agama-lib, progress.rs).  ProgressMonitor::run     *)
(* reads the manager's progress, hands it to the presenter's start, merges  *)
(* the current-step changes of the manager and of the software service in   *)
(* one stream, and serves the stream's items until the manager reports that *)
(* it has finished or until the stream ends.                                *)
(***************************************************************************)
MaxStep == 2      \* the steps a service reports are 0..MaxStep
MaxEvents == 3    \* the services make at most this many changes
MaxPending == 2   \* the items the stream holds for run at one time

ManagerPath == "/org/opensuse/Agama1/Manager"
SoftwarePath == "/org/opensuse/Agama/Software1"

\* struct Progress; the title is a function of the step here.
Progress(step, finished) ==
    [current_step |-> step, max_steps |-> MaxStep, finished |-> finished]

Progresses == { Progress(s, f) : s \in 0..MaxStep, f \in BOOLEAN }

\* The calls of trait ProgressPresenter as run makes them; finish has no
\* argument.
PresenterStart(p) == [m |-> "start", p |-> <<p>>]
PresenterUpdateMain(p) == [m |-> "update_main", p |-> <<p>>]
PresenterUpdateDetail(p) == [m |-> "update_detail", p |-> <<p>>]
PresenterFinish == [m |-> "finish", p |-> <<>>]

\* An item run took from the stream: its tag, whether the read of the
\* progress answered, and the progress read.
Taken(tag, ok, p) == [tag |-> tag, ok |-> ok, p |-> p]

\* ProgressMonitor::new: the two proxies exist, run has not started.
MonitorInit(finished) ==
    /\ mpc = "start"
    /\ manager = Progress(0, finished)
    /\ software = Progress(0, FALSE)
    /\ reachable = TRUE
    /\ subscribed = FALSE
    /\ changes = <<>>
    /\ ended = FALSE
    /\ emitted = 0
    /\ consumed = <<>>
    /\ presented = <<>>
    /\ result = "none"

networkVars ==
    <<conn, connLock, guard, senderLock, sguard, pc, call, ret, msg, queue, closed,
      delivered, pre, committed, post, lockLog, commitLog, enqLog, objects,
      processed, seen>>

monitorVars ==
    <<mpc, manager, software, reachable, subscribed, changes, ended, emitted, consumed,
      presented, result>>

vars == <<networkVars, monitorVars>>

Init ==
    /\ conn = [c \in Conns |-> InitialConnection(c)]
    /\ connLock = [c \in Conns |-> FALSE]
    /\ guard = [p \in Callers |-> 0]
    /\ senderLock = [a \in Adapters |-> FALSE]
    /\ sguard = [p \in Callers |-> NoAdapter]
    /\ pc = [p \in Callers |-> "idle"]
    /\ call = [p \in Callers |-> NoCall]
    /\ ret = [p \in Callers |-> NoRet]
    /\ msg = [p \in Callers |-> NoAction]
    /\ queue = <<>>
    /\ closed = FALSE
    /\ delivered = <<>>
    /\ pre = [p \in Callers |-> NoConnection]
    /\ committed = [p \in Callers |-> NoConnection]
    /\ post = [p \in Callers |-> NoConnection]
    /\ lockLog = <<>>
    /\ commitLog = <<>>
    /\ enqLog = <<>>
    /\ objects = InitialRegistry
    /\ processed = 0
    /\ seen = [p \in Callers |-> Seen(InitialRegistry, 0, {})]
    /\ MonitorInit(FALSE)

(***************************************************************************)
(* Locks and the channel.                                                  *)
(***************************************************************************)
\* A lock that is granted whether or not the mutex is held.
MutexFreeUnchecked(locked) == TRUE

\* self.connection.lock().await (futures::lock::Mutex) resolves only while
\* the mutex of the connection is free.
MutexFree(locked) == ~locked

\* self.actions.lock().await resolves only while the mutex around the
\* adapter's Sender is free.
SenderFree(locked) == ~locked

\* MutexGuard::map with the closure of get_wireless: the closure panics
\* unless the connection is of the Wireless variant.
IsWireless(cn) == cn.kind = "Wireless"

\* connection.clone() in update_connection: the snapshot of the connection
\* behind the guard the caller owns.
Snapshot(cn) == cn

\* A snapshot that wraps the base connection only and loses the wireless
\* settings.
WirelessSnapshotBaseOnly(cn) == [cn EXCEPT !.kind = "Wireless", !.wireless = NoWireless]

\* NetworkConnection::Wireless(connection.clone()) in Wireless::update_connection:
\* the WirelessConnection behind the mapped guard, wrapped again.
WirelessSnapshot(cn) == [cn EXCEPT !.kind = "Wireless"]

\* A send that puts the intent in the channel twice.
EnqueueTwice(q, a) == Append(Append(q, a), a)

\* A send that puts the intent at the front of the channel.
EnqueueFront(q, a) == <<a>> \o q

\* Sender::send on an open channel with room: the intent goes to the back.
Enqueue(q, a) == Append(q, a)

\* Sender::send(..).await resolves Ok once the channel has room, Err once the
\* channel is closed; until then it is pending.
SendReady(q, isClosed) == isClosed \/ Len(q) < QueueCap

\* .unwrap() on the Result of send: Err panics.
UnwrapSend(isClosed) == IF isClosed THEN "panic_send" ELSE "ok"

(***************************************************************************)
(* The handlers, one action per step between two await points.             *)
(***************************************************************************)
\* The callers whose call has returned.
Returned == {q \in Callers : pc[q] = "done"}

\* The call arrives: the handler starts and reaches its first await.  (The
\* calls that had returned by then are noted in seen.)
Call(p, calls) ==
    /\ pc[p] = "idle"
    /\ \E k \in calls :
          /\ call' = [call EXCEPT ![p] = k]
          /\ pc' = [pc EXCEPT ![p] = CASE k.op \in QueueOps    -> "lock_sender"
                                       [] k.op \in RegistryOps -> "lock_objects"
                                       [] OTHER                -> "lock_conn"]
    /\ seen' = [seen EXCEPT ![p].after = Returned]
    /\ UNCHANGED <<objects, processed>>
    /\ UNCHANGED <<conn, connLock, guard, senderLock, sguard, ret, msg, queue, closed,
                   delivered, pre, committed, post, lockLog, commitLog, enqLog>>
    /\ UNCHANGED monitorVars

\* get_connection of Connection, Match, Ipv4 and Ipv6: self.connection.lock().await.
GetConnection(p) ==
    LET c == call[p].c IN
    /\ pc[p] = "lock_conn"
    /\ call[p].op \notin WirelessOps
    /\ MutexFree(connLock[c])
    /\ connLock' = [connLock EXCEPT ![c] = TRUE]
    /\ guard' = [guard EXCEPT ![p] = c]
    /\ pc' = [pc EXCEPT ![p] = "locked"]
    /\ pre' = [pre EXCEPT ![p] = conn[c]]
    /\ lockLog' = Append(lockLog, p)
    /\ UNCHANGED <<objects, processed, seen>>
    /\ UNCHANGED <<conn, senderLock, sguard, call, ret, msg, queue, closed, delivered,
                   committed, post, commitLog, enqLog>>
    /\ UNCHANGED monitorVars

\* A get_wireless that does not wait for the mutex of the connection.
GetWirelessUnchecked(p) ==
    LET c == call[p].c IN
    /\ pc[p] = "lock_conn"
    /\ call[p].op \in WirelessOps
    /\ pre' = [pre EXCEPT ![p] = conn[c]]
    /\ lockLog' = Append(lockLog, p)
    /\ IF IsWireless(conn[c])
       THEN /\ connLock' = [connLock EXCEPT ![c] = TRUE]
            /\ guard' = [guard EXCEPT ![p] = c]
            /\ pc' = [pc EXCEPT ![p] = "locked"]
            /\ UNCHANGED <<ret, post>>
       ELSE /\ ret' = [ret EXCEPT ![p] = RetStatus("panic_not_wireless")]
            /\ pc' = [pc EXCEPT ![p] = "done"]
            /\ post' = [post EXCEPT ![p] = conn[c]]
            /\ UNCHANGED <<connLock, guard>>
    /\ UNCHANGED <<objects, processed, seen>>
    /\ UNCHANGED <<conn, senderLock, sguard, call, msg, queue, closed, delivered,
                   committed, commitLog, enqLog>>
    /\ UNCHANGED monitorVars

\* Wireless::get_wireless: the lock, then the map to the wireless part; the
\* panic unwinds and drops the guard just taken.
GetWireless(p) ==
    LET c == call[p].c IN
    /\ pc[p] = "lock_conn"
    /\ call[p].op \in WirelessOps
    /\ MutexFree(connLock[c])
    /\ pre' = [pre EXCEPT ![p] = conn[c]]
    /\ lockLog' = Append(lockLog, p)
    /\ IF IsWireless(conn[c])
       THEN /\ connLock' = [connLock EXCEPT ![c] = TRUE]
            /\ guard' = [guard EXCEPT ![p] = c]
            /\ pc' = [pc EXCEPT ![p] = "locked"]
            /\ UNCHANGED <<ret, post>>
       ELSE /\ ret' = [ret EXCEPT ![p] = RetStatus("panic_not_wireless")]
            /\ pc' = [pc EXCEPT ![p] = "done"]
            /\ post' = [post EXCEPT ![p] = conn[c]]
            /\ UNCHANGED <<connLock, guard>>
    /\ UNCHANGED <<objects, processed, seen>>
    /\ UNCHANGED <<conn, senderLock, sguard, call, msg, queue, closed, delivered,
                   committed, commitLog, enqLog>>
    /\ UNCHANGED monitorVars

\* A password getter that takes the password out of the connection
\* instead of cloning it.
ReadPropertyTaking(p) ==
    LET c == call[p].c IN
    /\ pc[p] = "locked"
    /\ call[p].op \in Getters
    /\ ret' = [ret EXCEPT ![p] = Getter(call[p], conn[c])]
    /\ conn' = [conn EXCEPT ![c] =
                   IF call[p].op = "Wireless.password"
                   THEN [conn[c] EXCEPT !.wireless.password = None]
                   ELSE conn[c]]
    /\ connLock' = [connLock EXCEPT ![c] = FALSE]
    /\ guard' = [guard EXCEPT ![p] = 0]
    /\ pc' = [pc EXCEPT ![p] = "done"]
    /\ post' = [post EXCEPT ![p] = conn'[c]]
    /\ UNCHANGED <<objects, processed, seen>>
    /\ UNCHANGED <<senderLock, sguard, call, msg, queue, closed, delivered, pre,
                   committed, lockLog, commitLog, enqLog>>
    /\ UNCHANGED monitorVars

\* A getter that returns its value and keeps the connection locked.
ReadPropertyKeepingGuard(p) ==
    LET c == call[p].c IN
    /\ pc[p] = "locked"
    /\ call[p].op \in Getters
    /\ ret' = [ret EXCEPT ![p] = Getter(call[p], conn[c])]
    /\ pc' = [pc EXCEPT ![p] = "done"]
    /\ post' = [post EXCEPT ![p] = conn[c]]
    /\ UNCHANGED <<objects, processed, seen>>
    /\ UNCHANGED <<conn, connLock, guard, senderLock, sguard, call, msg, queue, closed,
                   delivered, pre, committed, lockLog, commitLog, enqLog>>
    /\ UNCHANGED monitorVars

\* A property getter, from the lock to its return: the value is projected
\* and the guard dropped.
ReadProperty(p) ==
    LET c == call[p].c IN
    /\ pc[p] = "locked"
    /\ call[p].op \in Getters
    /\ ret' = [ret EXCEPT ![p] = Getter(call[p], conn[c])]
    /\ connLock' = [connLock EXCEPT ![c] = FALSE]
    /\ guard' = [guard EXCEPT ![p] = 0]
    /\ pc' = [pc EXCEPT ![p] = "done"]
    /\ post' = [post EXCEPT ![p] = conn[c]]
    /\ UNCHANGED <<objects, processed, seen>>
    /\ UNCHANGED <<conn, senderLock, sguard, call, msg, queue, closed, delivered, pre,
                   committed, lockLog, commitLog, enqLog>>
    /\ UNCHANGED monitorVars

\* A setter that drops the guard of the connection once it has mutated it,
\* before update_connection sends the snapshot.
WritePropertyDroppingGuard(p) ==
    LET c == call[p].c
        r == Setter(call[p], conn[c])
    IN
    /\ pc[p] = "locked"
    /\ call[p].op \in Setters
    /\ conn' = [conn EXCEPT ![c] = r.conn]
    /\ connLock' = [connLock EXCEPT ![c] = FALSE]
    /\ guard' = [guard EXCEPT ![p] = 0]
    /\ post' = [post EXCEPT ![p] = r.conn]
    /\ IF r.ok
       THEN /\ pc' = [pc EXCEPT ![p] = "lock_sender"]
            /\ committed' = [committed EXCEPT ![p] = r.conn]
            /\ commitLog' = Append(commitLog, p)
            /\ UNCHANGED ret
       ELSE /\ ret' = [ret EXCEPT ![p] = RetStatus("invalid")]
            /\ pc' = [pc EXCEPT ![p] = "done"]
            /\ UNCHANGED <<committed, commitLog>>
    /\ UNCHANGED <<objects, processed, seen>>
    /\ UNCHANGED <<senderLock, sguard, call, msg, queue, closed, delivered, pre,
                   lockLog, enqLog>>
    /\ UNCHANGED monitorVars

\* A property setter, from the lock to the call of update_connection: the
\* input is validated and the connection mutated in place; when validation
\* fails the ? operator returns the error and the guard is dropped.
WriteProperty(p) ==
    LET c == call[p].c
        r == Setter(call[p], conn[c])
    IN
    /\ pc[p] = "locked"
    /\ call[p].op \in Setters
    /\ conn' = [conn EXCEPT ![c] = r.conn]
    /\ IF r.ok
       THEN /\ pc' = [pc EXCEPT ![p] = "lock_sender"]
            /\ committed' = [committed EXCEPT ![p] = r.conn]
            /\ commitLog' = Append(commitLog, p)
            /\ UNCHANGED <<connLock, guard, ret, post>>
       ELSE /\ ret' = [ret EXCEPT ![p] = RetStatus("invalid")]
            /\ connLock' = [connLock EXCEPT ![c] = FALSE]
            /\ guard' = [guard EXCEPT ![p] = 0]
            /\ pc' = [pc EXCEPT ![p] = "done"]
            /\ post' = [post EXCEPT ![p] = r.conn]
            /\ UNCHANGED <<committed, commitLog>>
    /\ UNCHANGED <<objects, processed, seen>>
    /\ UNCHANGED <<senderLock, sguard, call, msg, queue, closed, delivered, pre,
                   lockLog, enqLog>>
    /\ UNCHANGED monitorVars

\* update_connection up to send: self.actions.lock().await, then the
\* UpdateConnection action is built from a clone of the connection.
UpdateConnection(p) ==
    LET a == AdapterOf(call[p])
        c == call[p].c
    IN
    /\ pc[p] = "lock_sender"
    /\ call[p].op \in Setters
    /\ SenderFree(senderLock[a])
    /\ senderLock' = [senderLock EXCEPT ![a] = TRUE]
    /\ sguard' = [sguard EXCEPT ![p] = a]
    /\ msg' = [msg EXCEPT ![p] =
                  ActionUpdateConnection(IF call[p].op \in WirelessSetters
                                         THEN WirelessSnapshot(conn[c])
                                         ELSE Snapshot(conn[c]))]
    /\ pc' = [pc EXCEPT ![p] = "send"]
    /\ UNCHANGED <<objects, processed, seen>>
    /\ UNCHANGED <<conn, connLock, guard, call, ret, queue, closed, delivered, pre,
                   committed, post, lockLog, commitLog, enqLog>>
    /\ UNCHANGED monitorVars

\* An add_connection that also inserts the connection in the registry.
AddConnectionRegistering(p) ==
    LET a  == AdapterOf(call[p])
        ty == ParseDeviceType(call[p].n)
    IN
    /\ pc[p] = "lock_sender"
    /\ call[p].op = "Connections.add_connection"
    /\ SenderFree(senderLock[a])
    /\ IF IsSome(ty)
       THEN /\ senderLock' = [senderLock EXCEPT ![a] = TRUE]
            /\ sguard' = [sguard EXCEPT ![p] = a]
            /\ msg' = [msg EXCEPT ![p] = ActionAddConnection(call[p].s, ty[1])]
            /\ pc' = [pc EXCEPT ![p] = "send"]
            /\ UNCHANGED ret
       ELSE /\ ret' = [ret EXCEPT ![p] = RetStatus("invalid")]
            /\ pc' = [pc EXCEPT ![p] = "done"]
            /\ UNCHANGED <<senderLock, sguard, msg>>
    /\ objects' = Registered(objects, ActionAddConnection(call[p].s, call[p].n))
    /\ UNCHANGED <<processed, seen>>
    /\ UNCHANGED <<conn, connLock, guard, call, queue, closed, delivered, pre,
                   committed, post, lockLog, commitLog, enqLog>>
    /\ UNCHANGED monitorVars

\* An add_connection that sends an Ethernet connection when the type is
\* not known.
AddConnectionDefaulting(p) ==
    LET a  == AdapterOf(call[p])
        ty == ParseDeviceType(call[p].n)
    IN
    /\ pc[p] = "lock_sender"
    /\ call[p].op = "Connections.add_connection"
    /\ SenderFree(senderLock[a])
    /\ senderLock' = [senderLock EXCEPT ![a] = TRUE]
    /\ sguard' = [sguard EXCEPT ![p] = a]
    /\ msg' = [msg EXCEPT ![p] =
                  ActionAddConnection(call[p].s, IF IsSome(ty) THEN ty[1] ELSE "Ethernet")]
    /\ pc' = [pc EXCEPT ![p] = "send"]
    /\ UNCHANGED <<objects, processed, seen>>
    /\ UNCHANGED <<conn, connLock, guard, call, ret, queue, closed, delivered, pre,
                   committed, post, lockLog, commitLog, enqLog>>
    /\ UNCHANGED monitorVars

\* Connections::add_connection up to send: the sender lock, then the action
\* is built; ty.try_into()? returns the error for an unknown device type.
AddConnection(p) ==
    LET a  == AdapterOf(call[p])
        ty == ParseDeviceType(call[p].n)
    IN
    /\ pc[p] = "lock_sender"
    /\ call[p].op = "Connections.add_connection"
    /\ SenderFree(senderLock[a])
    /\ IF IsSome(ty)
       THEN /\ senderLock' = [senderLock EXCEPT ![a] = TRUE]
            /\ sguard' = [sguard EXCEPT ![p] = a]
            /\ msg' = [msg EXCEPT ![p] = ActionAddConnection(call[p].s, ty[1])]
            /\ pc' = [pc EXCEPT ![p] = "send"]
            /\ UNCHANGED ret
       ELSE /\ ret' = [ret EXCEPT ![p] = RetStatus("invalid")]
            /\ pc' = [pc EXCEPT ![p] = "done"]
            /\ UNCHANGED <<senderLock, sguard, msg>>
    /\ UNCHANGED <<objects, processed, seen>>
    /\ UNCHANGED <<conn, connLock, guard, call, queue, closed, delivered, pre,
                   committed, post, lockLog, commitLog, enqLog>>
    /\ UNCHANGED monitorVars

\* Connections::remove_connection up to send.
RemoveConnection(p) ==
    LET a == AdapterOf(call[p]) IN
    /\ pc[p] = "lock_sender"
    /\ call[p].op = "Connections.remove_connection"
    /\ SenderFree(senderLock[a])
    /\ senderLock' = [senderLock EXCEPT ![a] = TRUE]
    /\ sguard' = [sguard EXCEPT ![p] = a]
    /\ msg' = [msg EXCEPT ![p] = ActionRemoveConnection(call[p].s)]
    /\ pc' = [pc EXCEPT ![p] = "send"]
    /\ UNCHANGED <<objects, processed, seen>>
    /\ UNCHANGED <<conn, connLock, guard, call, ret, queue, closed, delivered, pre,
                   committed, post, lockLog, commitLog, enqLog>>
    /\ UNCHANGED monitorVars

\* An apply that waits until no connection is locked.
ApplyWaitingForConnections(p) ==
    LET a == AdapterOf(call[p]) IN
    /\ pc[p] = "lock_sender"
    /\ call[p].op = "Connections.apply"
    /\ SenderFree(senderLock[a])
    /\ \A c \in Conns : MutexFree(connLock[c])
    /\ senderLock' = [senderLock EXCEPT ![a] = TRUE]
    /\ sguard' = [sguard EXCEPT ![p] = a]
    /\ msg' = [msg EXCEPT ![p] = ActionApply]
    /\ pc' = [pc EXCEPT ![p] = "send"]
    /\ UNCHANGED <<objects, processed, seen>>
    /\ UNCHANGED <<conn, connLock, guard, call, ret, queue, closed, delivered, pre,
                   committed, post, lockLog, commitLog, enqLog>>
    /\ UNCHANGED monitorVars

\* Connections::apply up to send.
Apply(p) ==
    LET a == AdapterOf(call[p]) IN
    /\ pc[p] = "lock_sender"
    /\ call[p].op = "Connections.apply"
    /\ SenderFree(senderLock[a])
    /\ senderLock' = [senderLock EXCEPT ![a] = TRUE]
    /\ sguard' = [sguard EXCEPT ![p] = a]
    /\ msg' = [msg EXCEPT ![p] = ActionApply]
    /\ pc' = [pc EXCEPT ![p] = "send"]
    /\ UNCHANGED <<objects, processed, seen>>
    /\ UNCHANGED <<conn, connLock, guard, call, ret, queue, closed, delivered, pre,
                   committed, post, lockLog, commitLog, enqLog>>
    /\ UNCHANGED monitorVars

\* Devices::get_devices, Connections::get_connections and
\* Connections::get_connection: self.objects.lock().await, then the answer
\* is computed from the registry and the guard dropped, with no await in
\* between.
GetDevices(p) ==
    /\ pc[p] = "lock_objects"
    /\ call[p].op = "Devices.get_devices"
    /\ ret' = [ret EXCEPT ![p] = Devices_get_devices(objects)]
    /\ pc' = [pc EXCEPT ![p] = "done"]
    /\ seen' = [seen EXCEPT ![p] = Seen(objects, processed, Returned)]
    /\ UNCHANGED <<objects, processed>>
    /\ UNCHANGED <<conn, connLock, guard, senderLock, sguard, call, msg, queue, closed,
                   delivered, pre, committed, post, lockLog, commitLog, enqLog>>
    /\ UNCHANGED monitorVars

GetConnections(p) ==
    /\ pc[p] = "lock_objects"
    /\ call[p].op = "Connections.get_connections"
    /\ ret' = [ret EXCEPT ![p] = Connections_get_connections(objects)]
    /\ pc' = [pc EXCEPT ![p] = "done"]
    /\ seen' = [seen EXCEPT ![p] = Seen(objects, processed, Returned)]
    /\ UNCHANGED <<objects, processed>>
    /\ UNCHANGED <<conn, connLock, guard, senderLock, sguard, call, msg, queue, closed,
                   delivered, pre, committed, post, lockLog, commitLog, enqLog>>
    /\ UNCHANGED monitorVars

GetConnectionPath(p) ==
    /\ pc[p] = "lock_objects"
    /\ call[p].op = "Connections.get_connection"
    /\ ret' = [ret EXCEPT ![p] = Connections_get_connection(objects, call[p].s)]
    /\ pc' = [pc EXCEPT ![p] = "done"]
    /\ seen' = [seen EXCEPT ![p] = Seen(objects, processed, Returned)]
    /\ UNCHANGED <<objects, processed>>
    /\ UNCHANGED <<conn, connLock, guard, senderLock, sguard, call, msg, queue, closed,
                   delivered, pre, committed, post, lockLog, commitLog, enqLog>>
    /\ UNCHANGED monitorVars

\* A return that drops the sender guard and keeps the connection locked.
ReleaseGuardsKeepingConnection(p) ==
    /\ senderLock' = [senderLock EXCEPT ![sguard[p]] = FALSE]
    /\ sguard' = [sguard EXCEPT ![p] = NoAdapter]
    /\ guard' = [guard EXCEPT ![p] = 0]
    /\ post' = [post EXCEPT ![p] = IF guard[p] = 0 THEN post[p] ELSE conn[guard[p]]]
    /\ UNCHANGED connLock

\* The guards a caller owns are dropped: the sender guard first, then the
\* connection guard.
ReleaseGuards(p) ==
    /\ senderLock' = [senderLock EXCEPT ![sguard[p]] = FALSE]
    /\ sguard' = [sguard EXCEPT ![p] = NoAdapter]
    /\ connLock' = [c \in Conns |-> IF guard[p] = c THEN FALSE ELSE connLock[c]]
    /\ guard' = [guard EXCEPT ![p] = 0]
    /\ post' = [post EXCEPT ![p] = IF guard[p] = 0 THEN post[p] ELSE conn[guard[p]]]

\* actions.send(action).await resolves Ok: the intent is in the channel.
Send(p) ==
    /\ pc[p] = "send"
    /\ SendReady(queue, closed)
    /\ UnwrapSend(closed) = "ok"
    /\ queue' = Enqueue(queue, msg[p])
    /\ enqLog' = Append(enqLog, [by |-> p, act |-> msg[p]])
    /\ pc' = [pc EXCEPT ![p] = "sent"]
    /\ UNCHANGED <<objects, processed, seen>>
    /\ UNCHANGED <<conn, connLock, guard, senderLock, sguard, call, ret, msg, closed,
                   delivered, pre, committed, post, lockLog, commitLog>>
    /\ UNCHANGED monitorVars

\* A failed send that puts the connection back as it was before the write.
SendFailsRollingBack(p) ==
    /\ pc[p] = "send"
    /\ SendReady(queue, closed)
    /\ UnwrapSend(closed) # "ok"
    /\ ret' = [ret EXCEPT ![p] = RetStatus(UnwrapSend(closed))]
    /\ pc' = [pc EXCEPT ![p] = "done"]
    /\ ReleaseGuards(p)
    /\ conn' = [c \in Conns |-> IF guard[p] = c THEN pre[p] ELSE conn[c]]
    /\ UNCHANGED <<objects, processed, seen>>
    /\ UNCHANGED <<call, msg, queue, closed, delivered, pre, committed, lockLog,
                   commitLog, enqLog>>
    /\ UNCHANGED monitorVars

\* actions.send(action).await resolves Err (the channel is closed) and
\* unwrap panics: the handler unwinds and its guards are dropped.
SendFails(p) ==
    /\ pc[p] = "send"
    /\ SendReady(queue, closed)
    /\ UnwrapSend(closed) # "ok"
    /\ ret' = [ret EXCEPT ![p] = RetStatus(UnwrapSend(closed))]
    /\ pc' = [pc EXCEPT ![p] = "done"]
    /\ ReleaseGuards(p)
    /\ UNCHANGED <<objects, processed, seen>>
    /\ UNCHANGED <<conn, call, msg, queue, closed, delivered, pre, committed, lockLog,
                   commitLog, enqLog>>
    /\ UNCHANGED monitorVars

\* The handler returns Ok(()) after the send: its guards are dropped.
Return(p) ==
    /\ pc[p] = "sent"
    /\ ret' = [ret EXCEPT ![p] = RetStatus("ok")]
    /\ pc' = [pc EXCEPT ![p] = "done"]
    /\ ReleaseGuards(p)
    /\ UNCHANGED <<objects, processed, seen>>
    /\ UNCHANGED <<conn, call, msg, queue, closed, delivered, pre, committed, lockLog,
                   commitLog, enqLog>>
    /\ UNCHANGED monitorVars

(***************************************************************************)
(* The backend: the receiving end of the channel.                          *)
(***************************************************************************)
\* The backend takes the next intent from the channel.
Receive ==
    /\ ~closed
    /\ queue # <<>>
    /\ delivered' = Append(delivered, Head(queue))
    /\ queue' = Tail(queue)
    /\ UNCHANGED <<objects, processed, seen>>
    /\ UNCHANGED <<conn, connLock, guard, senderLock, sguard, pc, call, ret, msg, closed,
                   pre, committed, post, lockLog, commitLog, enqLog>>
    /\ UNCHANGED monitorVars

\* The backend goes away and drops the receiver: the channel is closed and
\* the intents still in it are dropped.
BackendGone ==
    /\ ~closed
    /\ closed' = TRUE
    /\ queue' = <<>>
    /\ UNCHANGED <<objects, processed, seen>>
    /\ UNCHANGED <<conn, connLock, guard, senderLock, sguard, pc, call, ret, msg,
                   delivered, pre, committed, post, lockLog, commitLog, enqLog>>
    /\ UNCHANGED monitorVars

\* The backend processes the next intent it has received and updates the
\* registry for it.
Process ==
    /\ processed < Len(delivered)
    /\ processed' = processed + 1
    /\ objects' = Registered(objects, delivered[processed + 1])
    /\ UNCHANGED seen
    /\ UNCHANGED <<conn, connLock, guard, senderLock, sguard, pc, call, ret, msg, queue,
                   closed, delivered, pre, committed, post, lockLog, commitLog, enqLog>>
    /\ UNCHANGED monitorVars

Handler(p) ==
    \/ GetDevices(p)
    \/ GetConnections(p)
    \/ GetConnectionPath(p)
    \/ GetConnection(p)
    \/ GetWireless(p)
    \/ ReadProperty(p)
    \/ WriteProperty(p)
    \/ UpdateConnection(p)
    \/ AddConnection(p)
    \/ RemoveConnection(p)
    \/ Apply(p)
    \/ Send(p)
    \/ SendFails(p)
    \/ Return(p)

\* Two concurrent callers.
Next ==
    \/ Call("a", BasicCalls)
    \/ Call("b", CoreCalls)
    \/ \E p \in Callers : Handler(p)
    \/ Receive
    \/ Process
    \/ BackendGone

Spec == Init /\ [][Next]_vars

\* One caller making one call with any of the rich arguments.
NextSeq ==
    \/ Call("a", RichCalls)
    \/ Handler("a")
    \/ Receive
    \/ Process
    \/ BackendGone

SpecSeq == Init /\ [][NextSeq]_vars

\* Two concurrent callers and a backend that stays alive and keeps
\* receiving.  The channel starts full: the Apply intents of earlier calls
\* are still in it, so that a send has to wait for the backend.  The executor polls every task that can make progress
\* (a released Mutex and a freed slot of the channel wake their waiters),
\* which is weak fairness of the handlers and of the receiver.
LiveCalls ==
    {MkCall("Ipv4.set_method", c, "disabled", <<>>, <<>>, 0) : c \in Conns}
        \cup {MkCall("Ipv4.set_method", 1, "bogus", <<>>, <<>>, 0),
              MkCall("Wireless.set_password", 2, "", <<>>, <<>>, 0)}
        \cup QueueCalls

LiveCallsB ==
    {MkCall("Connection.set_interface", c, "wlan1", <<>>, <<>>, 0) : c \in Conns}
        \cup {MkCall("Connection.interface", 1, "", <<>>, <<>>, 0),
              MkCall("Devices.get_devices", 0, "", <<>>, <<>>, 0),
              MkCall("Connections.get_connections", 0, "", <<>>, <<>>, 0),
              MkCall("Connections.get_connection", 0, "eth0", <<>>, <<>>, 0)}

InitLive ==
    /\ conn = [c \in Conns |-> InitialConnection(c)]
    /\ connLock = [c \in Conns |-> FALSE]
    /\ guard = [p \in Callers |-> 0]
    /\ senderLock = [a \in Adapters |-> FALSE]
    /\ sguard = [p \in Callers |-> NoAdapter]
    /\ pc = [p \in Callers |-> "idle"]
    /\ call = [p \in Callers |-> NoCall]
    /\ ret = [p \in Callers |-> NoRet]
    /\ msg = [p \in Callers |-> NoAction]
    /\ queue = [i \in 1..QueueCap |-> ActionApply]
    /\ closed = FALSE
    /\ delivered = <<>>
    /\ pre = [p \in Callers |-> NoConnection]
    /\ committed = [p \in Callers |-> NoConnection]
    /\ post = [p \in Callers |-> NoConnection]
    /\ lockLog = <<>>
    /\ commitLog = <<>>
    /\ enqLog = [i \in 1..QueueCap |-> [by |-> "earlier", act |-> ActionApply]]
    /\ objects = InitialRegistry
    /\ processed = 0
    /\ seen = [p \in Callers |-> Seen(InitialRegistry, 0, {})]
    /\ MonitorInit(FALSE)

HandlerLive(p) ==
    \/ GetDevices(p)
    \/ GetConnections(p)
    \/ GetConnectionPath(p)
    \/ GetConnection(p)
    \/ GetWireless(p)
    \/ ReadProperty(p)
    \/ WriteProperty(p)
    \/ UpdateConnection(p)
    \/ AddConnection(p)
    \/ RemoveConnection(p)
    \/ Apply(p)
    \/ Send(p)
    \/ Return(p)

NextLive ==
    \/ Call("a", LiveCalls)
    \/ Call("b", LiveCallsB)
    \/ \E p \in Callers : HandlerLive(p)
    \/ Receive
    \/ Process

SpecLive ==
    /\ InitLive
    /\ [][NextLive]_vars
    /\ \A p \in Callers : WF_vars(HandlerLive(p))
    /\ WF_vars(Receive)

\* A writer and a concurrent reader.
NextRW ==
    \/ Call("a", WriteCalls)
    \/ Call("b", ReadCalls)
    \/ \E p \in Callers : Handler(p)
    \/ Receive
    \/ Process
    \/ BackendGone

SpecRW == Init /\ [][NextRW]_vars


(***************************************************************************)
(* Notions the properties use.                                             *)
(***************************************************************************)
\* Caller p is inside a property write: it has locked the connection and
\* has not returned.
InWrite(p) ==
    /\ call[p].op \in Setters
    /\ pc[p] \in {"locked", "lock_sender", "send", "sent"}

\* Caller p is inside a property read.
InRead(p) == call[p].op \in Getters /\ pc[p] = "locked"

\* Caller p made a property write that returned Ok.
WroteOk(p) == call[p].op \in Setters /\ pc[p] = "done" /\ ret[p].st = "ok"

\* Where caller p stands in a log of callers (0: not in it).
Pos(log, p) ==
    IF \E i \in 1..Len(log) : log[i] = p
    THEN CHOOSE i \in 1..Len(log) : log[i] = p
    ELSE 0

\* The places of the log of enqueued intents that hold the intents of
\* caller p, and those that hold an UpdateConnection of connection c.
EnqueuedBy(p) == {i \in 1..Len(enqLog) : enqLog[i].by = p}

UpdatesOf(c) ==
    {i \in 1..Len(enqLog) :
        enqLog[i].act.type = "UpdateConnection" /\ call[enqLog[i].by].c = c}

EnqueuedActions == [i \in 1..Len(enqLog) |-> enqLog[i].act]

IsPrefix(s, t) == Len(s) <= Len(t) /\ \A i \in 1..Len(s) : s[i] = t[i]

(***************************************************************************)
(* C1: a property write holds the lock of its connection from before       *)
(* validation until after its UpdateConnection intent is enqueued, and no  *)
(* two accessors (two writers, or a writer and a reader) ever hold the     *)
(* lock of the same connection at once.                                    *)
(***************************************************************************)
C1_LockHeldThroughWrite ==
    /\ \A p \in Callers :
          (InWrite(p) \/ InRead(p)) =>
              guard[p] = call[p].c /\ connLock[call[p].c]
    /\ \A p \in Callers :
          (call[p].op \in Setters /\ EnqueuedBy(p) # {} /\ pc[p] # "done") =>
              guard[p] = call[p].c
    /\ \A p, q \in Callers : (p # q /\ guard[p] # 0) => guard[q] # guard[p]
    /\ \A c \in Conns : connLock[c] <=> \E p \in Callers : guard[p] = c

\* A writer that has enqueued its intent and still holds the lock, while
\* the other caller waits for the lock of the same connection.
C1_Witness ==
    \E p, q \in Callers :
        /\ p # q
        /\ InWrite(p) /\ pc[p] = "sent" /\ guard[p] = call[p].c
        /\ pc[q] = "lock_conn" /\ call[q].c = call[p].c

(***************************************************************************)
(* C2: the snapshot in every enqueued UpdateConnection intent is the full  *)
(* state the connection had right after the mutation of the same call, and *)
(* the connection does not change between that mutation and the enqueue;   *)
(* so too for the Wireless facet, whose snapshot is the whole connection.  *)
(***************************************************************************)
C2_SnapshotIsCommittedState ==
    /\ \A i \in 1..Len(enqLog) :
          enqLog[i].act.type = "UpdateConnection" =>
              enqLog[i].act.conn = committed[enqLog[i].by]
    /\ \A p \in Callers :
          (InWrite(p) /\ pc[p] # "locked") => conn[call[p].c] = committed[p]

\* An intent of a Wireless write is enqueued after the other caller wrote
\* the same connection.
C2_Witness ==
    \E i \in 1..Len(enqLog) :
        /\ enqLog[i].act.type = "UpdateConnection"
        /\ call[enqLog[i].by].op \in WirelessSetters
        /\ enqLog[i].act.conn.wireless # InitialConnection(2).wireless
        /\ \E q \in Callers :
              /\ q # enqLog[i].by
              /\ WroteOk(q)
              /\ call[q].c = call[enqLog[i].by].c
              /\ Pos(commitLog, q) < Pos(commitLog, enqLog[i].by)

(***************************************************************************)
(* C3: two writers of the same connection do not interleave.  Once both    *)
(* writes have returned Ok, the connection is in the state that results    *)
(* from applying the two writes one after the other, in the order of their *)
(* critical sections, to the connection as it was; exactly two             *)
(* UpdateConnection intents are enqueued, one per writer, and each carries *)
(* the state the connection had at the end of its writer's critical        *)
(* section.                                                                *)
(***************************************************************************)
C3_WritersDoNotInterleave ==
    \A p, q \in Callers :
        (/\ p # q
         /\ WroteOk(p) /\ WroteOk(q)
         /\ call[p].c = call[q].c
         /\ Pos(lockLog, p) < Pos(lockLog, q)) =>
            LET c == call[p].c IN
            /\ pre[p] = InitialConnection(c)
            /\ post[p] = Setter(call[p], pre[p]).conn
            /\ pre[q] = post[p]
            /\ post[q] = Setter(call[q], pre[q]).conn
            /\ conn[c] = post[q]
            /\ Cardinality(UpdatesOf(c)) = 2
            /\ \A r \in {p, q} :
                  /\ Cardinality(EnqueuedBy(r)) = 1
                  /\ \A i \in EnqueuedBy(r) :
                        /\ enqLog[i].act.type = "UpdateConnection"
                        /\ enqLog[i].act.conn = post[r]

\* Both writers have returned Ok after writing different fields of the
\* same connection.
C3_Witness ==
    \E p, q \in Callers :
        /\ p # q
        /\ WroteOk(p) /\ WroteOk(q)
        /\ call[p].c = call[q].c
        /\ call[p].op # call[q].op
        /\ conn[call[p].c] # pre[q]
        /\ pre[q] # pre[p]


(***************************************************************************)
(* The inputs that are valid, stated from the D-Bus vocabulary.            *)
(***************************************************************************)
MethodWords == {"disabled", "auto", "manual", "link-local"}

ModeWords == {"unknown", "adhoc", "infrastructure", "ap", "mesh"}

SecurityWords ==
    {"none", "owe", "ieee8021x", "wpa-psk", "sae", "wpa-eap", "wpa-eap-suite-b192"}

Ipv4Literals == {"192.168.0.1", "10.0.0.1"}

Ipv6Literals == {"::1", "0:0:0:0:0:0:0:1", "fe80::1"}

Ipv4Prefixed == {"192.168.0.1/24", "10.0.0.1/8"}

Ipv6Prefixed == {"::1/128", "fe80::1/64"}

StrictSetters ==
    {"Ipv4.set_method", "Ipv4.set_nameservers", "Ipv4.set_gateway",
     "Ipv6.set_method", "Ipv6.set_nameservers", "Ipv6.set_gateway",
     "Wireless.set_mode", "Wireless.set_security"}

\* The argument of a call to a strictly validated setter is valid.
ValidInput(k) ==
    CASE k.op \in {"Ipv4.set_method", "Ipv6.set_method"} -> k.s \in MethodWords
      [] k.op = "Ipv4.set_nameservers" -> \A i \in 1..Len(k.l) : k.l[i] \in Ipv4Literals
      [] k.op = "Ipv6.set_nameservers" -> \A i \in 1..Len(k.l) : k.l[i] \in Ipv6Literals
      [] k.op = "Ipv4.set_gateway"     -> k.s = "" \/ k.s \in Ipv4Literals
      [] k.op = "Ipv6.set_gateway"     -> k.s = "" \/ k.s \in Ipv6Literals
      [] k.op = "Wireless.set_mode"    -> k.s \in ModeWords
      [] k.op = "Wireless.set_security" -> k.s \in SecurityWords
      [] OTHER                         -> TRUE

\* The call of caller p reached the body of its handler: a Wireless call
\* gets there only on a connection of the Wireless variant.
RightVariant(p) == call[p].op \in WirelessOps => pre[p].kind = "Wireless"

(***************************************************************************)
(* C4: a write of a strictly validated field (IPv4/IPv6 Nameservers,       *)
(* Gateway, Method; Wireless Mode, Security) with an input that does not   *)
(* parse returns a validation error, leaves the connection exactly as it   *)
(* was (the previous nameserver list is kept when one entry is invalid),   *)
(* enqueues no intent and releases the lock; and a write is rejected only  *)
(* for such an input.                                                      *)
(***************************************************************************)
C4_InvalidInputIsRejected ==
    \A p \in Callers :
        (pc[p] = "done" /\ call[p].op \in Setters /\ RightVariant(p)) =>
            IF call[p].op \in StrictSetters /\ ~ValidInput(call[p])
            THEN /\ ret[p].st = "invalid"
                 /\ post[p] = pre[p]
                 /\ conn[call[p].c] = pre[p]
                 /\ EnqueuedBy(p) = {}
                 /\ msg[p] = NoAction
                 /\ queue = <<>> /\ delivered = <<>>
                 /\ guard[p] = 0 /\ sguard[p] = NoAdapter
                 /\ ~connLock[call[p].c]
            ELSE ret[p].st # "invalid"

\* A nameserver list whose second entry is invalid was rejected on a
\* connection that had a nameserver.
C4_Witness ==
    \E p \in Callers :
        /\ pc[p] = "done"
        /\ call[p].op = "Ipv4.set_nameservers"
        /\ call[p].l = <<"192.168.0.1", "bogus">>
        /\ ret[p].st = "invalid"
        /\ conn[call[p].c].ipv4.nameservers = << <<10, 0, 0, 1>> >>

(***************************************************************************)
(* C5: the backend receives the intents (AddConnection, RemoveConnection,  *)
(* UpdateConnection, Apply) in the order in which they were enqueued, each *)
(* once: what it has received is always a prefix of what was enqueued, and *)
(* while it is alive the rest is in the channel, in order.                 *)
(***************************************************************************)
C5_FifoDelivery ==
    /\ IsPrefix(delivered, EnqueuedActions)
    /\ ~closed => delivered \o queue = EnqueuedActions

\* Two intents were in the channel together and both have been received.
C5_Witness ==
    /\ Len(delivered) = 2
    /\ delivered[1].type = "AddConnection"
    /\ delivered[2].type = "UpdateConnection"
    /\ \A p \in Callers : pc[p] = "done" /\ ret[p].st = "ok"

(***************************************************************************)
(* C6 as stated: for any two successful property writes, on the same       *)
(* connection or on different ones, the UpdateConnection intents reach the *)
(* backend in the order in which the writes committed their mutation.      *)
(***************************************************************************)
C6_DeliveryOrderIsCommitOrder ==
    \A i, j \in 1..Len(delivered) :
        (/\ i < j
         /\ delivered[i].type = "UpdateConnection"
         /\ delivered[j].type = "UpdateConnection"
         /\ WroteOk(enqLog[i].by) /\ WroteOk(enqLog[j].by)) =>
            Pos(commitLog, enqLog[i].by) < Pos(commitLog, enqLog[j].by)

(***************************************************************************)
(* C6 amended: for any two successful property writes on the same          *)
(* connection, the UpdateConnection intents reach the backend in the order *)
(* in which the writes committed their mutation.                           *)
(***************************************************************************)
C6_DeliveryOrderIsCommitOrderPerConnection ==
    \A i, j \in 1..Len(delivered) :
        (/\ i < j
         /\ delivered[i].type = "UpdateConnection"
         /\ delivered[j].type = "UpdateConnection"
         /\ WroteOk(enqLog[i].by) /\ WroteOk(enqLog[j].by)
         /\ call[enqLog[i].by].c = call[enqLog[j].by].c) =>
            /\ delivered[i] = enqLog[i].act /\ delivered[j] = enqLog[j].act
            /\ Pos(commitLog, enqLog[i].by) < Pos(commitLog, enqLog[j].by)

\* The backend has received the intents of two successful writes of the
\* same connection.
C6_Witness ==
    /\ Len(delivered) = 2
    /\ \A i \in 1..2 : delivered[i].type = "UpdateConnection"
    /\ \A p \in Callers : WroteOk(p)
    /\ call["a"].c = call["b"].c
    /\ delivered[1] # delivered[2]

(***************************************************************************)
(* C7: the writes of one connection are ordered by the order in which they *)
(* locked the connection, and their UpdateConnection intents are enqueued  *)
(* in that order, whichever adapter (Connection, Match, IPv4, IPv6,        *)
(* Wireless) made each write; so, when no write of the connection is in    *)
(* progress and every write that changed it returned Ok, the last          *)
(* UpdateConnection enqueued for it carries the state the connection is    *)
(* in, the one the last writer left.                                       *)
(***************************************************************************)
C7_EnqueueOrderIsLockOrder ==
    \A c \in Conns :
        /\ \A i, j \in UpdatesOf(c) :
              i < j => Pos(lockLog, enqLog[i].by) < Pos(lockLog, enqLog[j].by)
        /\ \A p, q \in Callers :
              (/\ call[p].c = c /\ call[q].c = c
               /\ Pos(commitLog, p) > 0 /\ Pos(commitLog, q) > 0) =>
                  (Pos(lockLog, p) < Pos(lockLog, q)
                      <=> Pos(commitLog, p) < Pos(commitLog, q))
        /\ (/\ UpdatesOf(c) # {}
            /\ ~connLock[c]
            /\ \A p \in Callers :
                  (Pos(commitLog, p) > 0 /\ call[p].c = c) => WroteOk(p)) =>
              LET last == CHOOSE i \in UpdatesOf(c) : \A j \in UpdatesOf(c) : j <= i
              IN  /\ enqLog[last].act.conn = conn[c]
                  /\ enqLog[last].act.conn = post[enqLog[last].by]
                  /\ \A p \in Callers :
                        (Pos(commitLog, p) > 0 /\ call[p].c = c) =>
                            Pos(lockLog, p) <= Pos(lockLog, enqLog[last].by)

\* Two writes of one connection through different adapters, one of them
\* the Wireless adapter, have both returned Ok.
C7_Witness ==
    \E p, q \in Callers :
        /\ WroteOk(p) /\ WroteOk(q)
        /\ call[p].c = call[q].c
        /\ Facet(call[p].op) = "Wireless"
        /\ Facet(call[q].op) = "Ipv6"
        /\ Pos(lockLog, p) < Pos(lockLog, q)
        /\ Cardinality(UpdatesOf(call[p].c)) = 2

(***************************************************************************)
(* C8: when the enqueue of an intent fails because the channel is closed   *)
(* (the backend is gone), the call (a property write, AddConnection,       *)
(* RemoveConnection or Apply) returns an error to its caller; the failure  *)
(* is neither swallowed nor turned into an abort of the serving task.      *)
(***************************************************************************)
C8_EnqueueFailureIsReturned ==
    \A p \in Callers :
        (pc[p] = "done" /\ msg[p] # NoAction /\ EnqueuedBy(p) = {}) =>
            ret[p].st = "backend_unavailable"

(***************************************************************************)
(* C9: a read or a write of a Wireless property (SSID, Mode, Password,     *)
(* Security) on a connection that is not of the Wireless variant ends with *)
(* a typed wrong-variant failure returned to the caller; it does not       *)
(* panic, changes nothing and enqueues nothing.                            *)
(***************************************************************************)
C9_WrongVariantIsTypedFailure ==
    \A p \in Callers :
        (/\ pc[p] = "done"
         /\ call[p].op \in WirelessOps
         /\ pre[p].kind # "Wireless") =>
            /\ ret[p].st = "wrong_variant"
            /\ post[p] = pre[p]
            /\ EnqueuedBy(p) = {}

(***************************************************************************)
(* C10: a write of the IPv4 or IPv6 Addresses property never fails         *)
(* validation: the stored list becomes the entries of the input that are   *)
(* address/prefix of that family, in input order (empty when none is), in  *)
(* place of the previous list, nothing else of the connection changes, and *)
(* the call that returns Ok has enqueued exactly one UpdateConnection      *)
(* intent, which carries the new list.                                     *)
(***************************************************************************)
C10_AddressesAreBestEffort ==
    \A p \in Callers :
        (pc[p] = "done" /\ call[p].op \in {"Ipv4.set_addresses", "Ipv6.set_addresses"}) =>
            LET v4    == call[p].op = "Ipv4.set_addresses"
                kept  == SelectSeq(call[p].l,
                                   LAMBDA s : IF v4 THEN s \in Ipv4Prefixed
                                              ELSE s \in Ipv6Prefixed)
                value == [i \in 1..Len(kept) |->
                             IF v4 THEN ParseIpAddress4(kept[i])[1]
                             ELSE ParseIpAddress6(kept[i])[1]]
            IN  /\ ret[p].st # "invalid"
                /\ ret[p].st = "ok" \/ closed
                /\ post[p] = IF v4 THEN [pre[p] EXCEPT !.ipv4.addresses = value]
                             ELSE [pre[p] EXCEPT !.ipv6.addresses = value]
                /\ (IF v4 THEN Ipv4_addresses(post[p]) ELSE Ipv6_addresses(post[p])).l = kept
                /\ ret[p].st = "ok" =>
                      /\ Cardinality(EnqueuedBy(p)) = 1
                      /\ \A i \in EnqueuedBy(p) :
                            enqLog[i].act = ActionUpdateConnection(post[p])

\* A list with one valid and one invalid entry was written over a list
\* that held another address: only the valid entry is stored.
C10_Witness ==
    \E p \in Callers :
        /\ pc[p] = "done" /\ ret[p].st = "ok"
        /\ call[p].op = "Ipv4.set_addresses"
        /\ call[p].l = <<"10.0.0.1/x", "10.0.0.1/8">>
        /\ pre[p].ipv4.addresses = << <<(<<192, 168, 0, 1>>), 24>> >>
        /\ conn[call[p].c].ipv4.addresses = << <<(<<10, 0, 0, 1>>), 8>> >>


(***************************************************************************)
(* C11: a write of the empty string to Gateway clears the gateway whatever *)
(* it was, succeeds and enqueues one UpdateConnection, and a later read    *)
(* returns the empty string; a write of a non-empty value that is not an   *)
(* address of the family of the facet (an IPv6 literal on the IPv4 facet)  *)
(* fails, leaves the previous gateway in place and enqueues nothing.       *)
(***************************************************************************)
C11_GatewayClearAndReject ==
    \A p \in Callers :
        (pc[p] = "done" /\ call[p].op \in {"Ipv4.set_gateway", "Ipv6.set_gateway"}) =>
            LET v4     == call[p].op = "Ipv4.set_gateway"
                c      == call[p].c
                gw(cn) == IF v4 THEN cn.ipv4.gateway ELSE cn.ipv6.gateway
                read   == IF v4 THEN "Ipv4.gateway" ELSE "Ipv6.gateway"
                family == IF v4 THEN Ipv4Literals ELSE Ipv6Literals
            IN  /\ call[p].s = "" =>
                      /\ ret[p].st = "ok" \/ closed
                      /\ ret[p].st # "invalid"
                      /\ gw(post[p]) = None
                      /\ gw(conn[c]) = None
                      /\ ret[p].st = "ok" =>
                            /\ Cardinality(EnqueuedBy(p)) = 1
                            /\ \A i \in EnqueuedBy(p) :
                                  /\ enqLog[i].act.type = "UpdateConnection"
                                  /\ gw(enqLog[i].act.conn) = None
                      /\ \A q \in Callers :
                            (/\ pc[q] = "done" /\ call[q].op = read /\ call[q].c = c
                             /\ Pos(lockLog, p) < Pos(lockLog, q)) =>
                                (ret[q].st = "ok" /\ ret[q].s = "")
                /\ (call[p].s # "" /\ call[p].s \notin family) =>
                      /\ ret[p].st = "invalid"
                      /\ gw(post[p]) = gw(pre[p])
                      /\ post[p] = pre[p]
                      /\ EnqueuedBy(p) = {}

\* The gateway 192.168.0.1 of a connection was cleared and a later read
\* has returned the empty string.
C11_Witness ==
    /\ pc["a"] = "done" /\ pc["b"] = "done"
    /\ call["a"].op = "Ipv4.set_gateway" /\ call["a"].s = "" /\ call["a"].c = 1
    /\ pre["a"].ipv4.gateway = Some(<<192, 168, 0, 1>>)
    /\ ret["a"].st = "ok"
    /\ call["b"].op = "Ipv4.gateway" /\ call["b"].c = 1
    /\ Pos(lockLog, "a") < Pos(lockLog, "b")
    /\ ret["b"].s = ""


\* The registry is read by a call that has returned.
ReadRegistry(p, op) == pc[p] = "done" /\ call[p].op = op

(***************************************************************************)
(* C12: GetConnection(id) returns the registered path when the registry    *)
(* holds a connection with that id and fails with UnknownConnection        *)
(* otherwise; it does not change the registry and enqueues no intent.      *)
(***************************************************************************)
C12_GetConnectionFindsOrFails ==
    \A p \in Callers :
        ReadRegistry(p, "Connections.get_connection") =>
            LET reg  == seen[p].reg
                hits == {i \in 1..Len(reg.connections) :
                            reg.connections[i].id = call[p].s}
            IN  /\ hits # {} =>
                      /\ ret[p].st = "ok"
                      /\ \E i \in hits : ret[p].s = reg.connections[i].path
                /\ hits = {} => ret[p] = RetStatus("unknown_connection")
                /\ processed = seen[p].n => objects = reg
                /\ EnqueuedBy(p) = {}
                /\ msg[p] = NoAction
                /\ guard[p] = 0 /\ sguard[p] = NoAdapter

\* The path of a connection that was added and then registered by the
\* backend has been returned.
C12_Witness ==
    /\ ReadRegistry("b", "Connections.get_connection")
    /\ call["b"].s = "eth-test"
    /\ ret["b"] = RetS(ConnectionPath2)
    /\ call["a"].op = "Connections.add_connection" /\ ret["a"].st = "ok"


\* The registry after the backend has processed the first n intents it
\* received.
RECURSIVE RegistryAfter(_)
RegistryAfter(n) ==
    IF n = 0 THEN InitialRegistry
    ELSE Registered(RegistryAfter(n - 1), delivered[n])

(***************************************************************************)
(* C13: AddConnection and RemoveConnection only enqueue their intent: they *)
(* neither insert into nor remove from the registry, which holds only what *)
(* the backend has made of the intents it processed; so the registry is    *)
(* unchanged when the call returns, and a GetConnection(id) made after     *)
(* AddConnection(id, type) has returned fails with not-found as long as    *)
(* the backend has not updated the registry.                               *)
(***************************************************************************)
C13_AddRemoveOnlyEnqueue ==
    /\ objects = RegistryAfter(processed)
    /\ \A p \in Callers :
          (/\ pc[p] = "done" /\ ret[p].st = "ok"
           /\ call[p].op \in {"Connections.add_connection",
                              "Connections.remove_connection"}) =>
              /\ Cardinality(EnqueuedBy(p)) = 1
              /\ \A i \in EnqueuedBy(p) : enqLog[i].act = msg[p] /\ msg[p].id = call[p].s
              /\ msg[p].type = IF call[p].op = "Connections.add_connection"
                               THEN "AddConnection" ELSE "RemoveConnection"
              /\ processed = 0 => objects = InitialRegistry
              /\ \A q \in Callers :
                    (/\ ReadRegistry(q, "Connections.get_connection")
                     /\ p \in seen[q].after
                     /\ seen[q].n = 0
                     /\ call[p].op = "Connections.add_connection"
                     /\ call[q].s = call[p].s) =>
                        ret[q] = RetStatus("unknown_connection")

\* AddConnection("eth-test", 1) has returned and its intent has reached
\* the backend, which has not processed it; a GetConnection("eth-test")
\* made after the return has failed.
C13_Witness ==
    /\ pc["a"] = "done" /\ ret["a"].st = "ok"
    /\ call["a"] = MkCall("Connections.add_connection", 0, "eth-test", <<>>, <<>>, 1)
    /\ ReadRegistry("b", "Connections.get_connection")
    /\ call["b"].s = "eth-test"
    /\ "a" \in seen["b"].after
    /\ ret["b"] = RetStatus("unknown_connection")
    /\ Len(delivered) = 1 /\ processed = 0
    /\ objects = InitialRegistry


\* The getter that reads the property a setter writes.
ReaderOf(op) ==
    CASE op = "Connection.set_interface" -> "Connection.interface"
      [] op = "Match.set_driver"         -> "Match.driver"
      [] op = "Match.set_path"           -> "Match.path"
      [] op = "Match.set_interface"      -> "Match.interface"
      [] op = "Match.set_kernel"         -> "Match.kernel"
      [] op = "Ipv4.set_addresses"       -> "Ipv4.addresses"
      [] op = "Ipv4.set_method"          -> "Ipv4.method"
      [] op = "Ipv4.set_nameservers"     -> "Ipv4.nameservers"
      [] op = "Ipv4.set_gateway"         -> "Ipv4.gateway"
      [] op = "Ipv6.set_addresses"       -> "Ipv6.addresses"
      [] op = "Ipv6.set_method"          -> "Ipv6.method"
      [] op = "Ipv6.set_nameservers"     -> "Ipv6.nameservers"
      [] op = "Ipv6.set_gateway"         -> "Ipv6.gateway"
      [] op = "Wireless.set_ssid"        -> "Wireless.ssid"
      [] op = "Wireless.set_mode"        -> "Wireless.mode"
      [] op = "Wireless.set_password"    -> "Wireless.password"
      [] op = "Wireless.set_security"    -> "Wireless.security"
      [] OTHER                           -> "-"

\* What a read returns for the value a successful write stored: the input
\* itself, and for an address list its entries of the right family.
StoredForm(k) ==
    CASE k.op = "Ipv4.set_addresses" -> RetL(SelectSeq(k.l, LAMBDA s : s \in Ipv4Prefixed))
      [] k.op = "Ipv6.set_addresses" -> RetL(SelectSeq(k.l, LAMBDA s : s \in Ipv6Prefixed))
      [] k.op \in MatchSetters \cup {"Ipv4.set_nameservers", "Ipv6.set_nameservers"} ->
             RetL(k.l)
      [] k.op = "Wireless.set_ssid"  -> RetB(k.b)
      [] OTHER                       -> RetS(k.s)

(***************************************************************************)
(* C14: once a property write has returned success, a later read of that   *)
(* property of the same connection returns the written value in its stored *)
(* form, as long as no other write of the property has succeeded, whether  *)
(* or not the backend has received the UpdateConnection intent.            *)
(***************************************************************************)
C14_ReadAfterWrite ==
    \A p, q \in Callers :
        (/\ WroteOk(p)
         /\ pc[q] = "done"
         /\ call[q].op = ReaderOf(call[p].op)
         /\ call[q].c = call[p].c
         /\ Pos(lockLog, p) < Pos(lockLog, q)) =>
            /\ ret[q] = StoredForm(call[p])
            /\ Getter(call[q], conn[call[p].c]) = StoredForm(call[p])

\* A password was written with success and read back while its intent was
\* still in the channel.
C14_Witness ==
    /\ WroteOk("a")
    /\ call["a"] = MkCall("Wireless.set_password", 2, "hunter2", <<>>, <<>>, 0)
    /\ pc["b"] = "done"
    /\ call["b"].op = "Wireless.password" /\ call["b"].c = 2
    /\ Pos(lockLog, "a") < Pos(lockLog, "b")
    /\ ret["b"] = RetS("hunter2")
    /\ Len(queue) = 1 /\ delivered = <<>>


(***************************************************************************)
(* C15: with the callers scheduled fairly and a backend that keeps         *)
(* receiving, every property write that starts eventually returns with the *)
(* lock of the connection and the sender released, and the                 *)
(* UpdateConnection intent of every write that returned Ok is eventually   *)
(* received by the backend; no writer stays blocked on the send while it   *)
(* holds the lock of the connection.                                       *)
(***************************************************************************)
C15_WritesReturnAndAreDelivered ==
    \A p \in Callers :
        /\ (call[p].op \in Setters /\ pc[p] # "done")
              ~> (pc[p] = "done" /\ guard[p] = 0 /\ sguard[p] = NoAdapter
                    /\ ~senderLock[AdapterOf(call[p])])
        /\ (pc[p] = "send" /\ guard[p] # 0 /\ Len(queue) = QueueCap)
              ~> (pc[p] = "sent" /\ guard[p] # 0)
        /\ WroteOk(p)
              ~> (\E i \in 1..Len(delivered) :
                     delivered[i] = ActionUpdateConnection(committed[p]))

\* A writer waits on the send with the channel full while it holds the
\* lock of a connection that another writer is waiting for.
C15_Witness ==
    \E p, q \in Callers :
        /\ pc[p] = "send" /\ guard[p] # 0 /\ call[p].op \in Setters
        /\ Len(queue) = QueueCap
        /\ ~ENABLED Send(p)
        /\ pc[q] = "lock_conn" /\ call[q].op \in Setters /\ call[q].c = guard[p]


(***************************************************************************)
(* C16: AddConnection, RemoveConnection and Apply never take the lock of a *)
(* connection: each goes on, up to the enqueue of its intent, while a      *)
(* writer holds the lock of a connection, and each call that returns Ok    *)
(* has put exactly one intent, of its own kind, on the channel that also   *)
(* carries the UpdateConnection intents.                                   *)
(***************************************************************************)
C16_QueueOpsBypassConnectionLocks ==
    \A p \in Callers :
        call[p].op \in QueueOps =>
            /\ guard[p] = 0
            /\ Pos(lockLog, p) = 0
            /\ (pc[p] = "lock_sender" /\ ~senderLock[AdapterOf(call[p])]) =>
                  ENABLED Handler(p)
            /\ (pc[p] = "send" /\ (closed \/ Len(queue) < QueueCap)) => ENABLED Handler(p)
            /\ pc[p] = "sent" => ENABLED Handler(p)
            /\ (pc[p] = "done" /\ ret[p].st = "ok") =>
                  /\ Cardinality(EnqueuedBy(p)) = 1
                  /\ \A i \in EnqueuedBy(p) :
                        enqLog[i].act =
                            CASE call[p].op = "Connections.add_connection" ->
                                     ActionAddConnection(call[p].s,
                                                         ParseDeviceType(call[p].n)[1])
                              [] call[p].op = "Connections.remove_connection" ->
                                     ActionRemoveConnection(call[p].s)
                              [] OTHER -> ActionApply
                  /\ ~closed => delivered \o queue = EnqueuedActions

\* Apply is about to take its sender while a writer that has changed a
\* connection still holds the lock of that connection; the intent of the
\* writer and the Apply intent end up in the same channel.
C16_Witness ==
    \E p, q \in Callers :
        /\ call[p].op = "Connections.apply" /\ pc[p] = "lock_sender"
        /\ call[q].op \in Setters /\ pc[q] = "sent" /\ guard[q] # 0
        /\ connLock[guard[q]]
        /\ ENABLED Apply(p)
        /\ queue = <<msg[q]>>


(***************************************************************************)
(* C17: GetDevices and GetConnections never fail and return, in the order  *)
(* of the registry, exactly the paths the registry holds at the time of    *)
(* the call: no registered path is left out and no path is invented.       *)
(***************************************************************************)
C17_CollectionsListTheRegistry ==
    \A p \in Callers :
        /\ ReadRegistry(p, "Devices.get_devices") =>
              /\ ret[p].st = "ok"
              /\ Len(ret[p].l) = Len(seen[p].reg.devices)
              /\ \A i \in 1..Len(ret[p].l) : ret[p].l[i] = seen[p].reg.devices[i]
        /\ ReadRegistry(p, "Connections.get_connections") =>
              /\ ret[p].st = "ok"
              /\ Len(ret[p].l) = Len(seen[p].reg.connections)
              /\ \A i \in 1..Len(ret[p].l) : ret[p].l[i] = seen[p].reg.connections[i].path
        /\ (pc[p] = "done" /\ call[p].op \in RegistryOps) =>
              /\ processed = seen[p].n => objects = seen[p].reg
              /\ EnqueuedBy(p) = {}

\* GetConnections has returned the three paths of a registry to which the
\* backend had added a connection.
C17_Witness ==
    /\ ReadRegistry("b", "Connections.get_connections")
    /\ ret["b"] = RetL(<<ConnectionPath0, ConnectionPath1, ConnectionPath2>>)
    /\ Len(seen["b"].reg.connections) = 3
    /\ seen["b"].reg.connections[3].id = "eth-test"


UnvalidatedSetters ==
    MatchSetters \cup {"Connection.set_interface", "Wireless.set_ssid",
                       "Wireless.set_password"}

\* The field of connection cn that an unvalidated setter writes.
FieldOf(op, cn) ==
    CASE op = "Connection.set_interface" -> cn.interface
      [] op = "Match.set_driver"         -> cn.match.driver
      [] op = "Match.set_path"           -> cn.match.path
      [] op = "Match.set_interface"      -> cn.match.interface
      [] op = "Match.set_kernel"         -> cn.match.kernel
      [] op = "Wireless.set_ssid"        -> cn.wireless.ssid
      [] op = "Wireless.set_password"    -> cn.wireless.password

(***************************************************************************)
(* C18: a write of an unvalidated field (the Match lists Driver, Path,     *)
(* Interface, Kernel; Connection.Interface; Wireless SSID and Password)    *)
(* on a connection of the right variant never fails validation: the field  *)
(* becomes the input verbatim (for Password the empty string makes it      *)
(* absent, which reads back as the empty string), and the call that        *)
(* returns Ok has enqueued exactly one UpdateConnection intent.            *)
(***************************************************************************)
C18_UnvalidatedWritesAreVerbatim ==
    \A p \in Callers :
        (pc[p] = "done" /\ call[p].op \in UnvalidatedSetters /\ RightVariant(p)) =>
            LET k == call[p] IN
            /\ ret[p].st # "invalid"
            /\ ret[p].st = "ok" \/ closed
            /\ FieldOf(k.op, post[p]) =
                  CASE k.op \in MatchSetters           -> k.l
                    [] k.op = "Wireless.set_ssid"     -> k.b
                    [] k.op = "Wireless.set_password" ->
                           IF k.s = "" THEN None ELSE Some(k.s)
                    [] OTHER                          -> k.s
            /\ Getter(MkCall(ReaderOf(k.op), k.c, "", <<>>, <<>>, 0), post[p])
                  = StoredForm(k)
            /\ ret[p].st = "ok" =>
                  /\ Cardinality(EnqueuedBy(p)) = 1
                  /\ \A i \in EnqueuedBy(p) :
                        enqLog[i].act = ActionUpdateConnection(post[p])

\* The empty string was written over the password "secret": the password
\* is absent and one intent carries the connection without it.
C18_Witness ==
    \E p \in Callers :
        /\ pc[p] = "done" /\ ret[p].st = "ok"
        /\ call[p].op = "Wireless.set_password" /\ call[p].s = ""
        /\ pre[p].wireless.password = Some("secret")
        /\ conn[call[p].c].wireless.password = None
        /\ Wireless_password(conn[call[p].c]) = RetS("")
        /\ Cardinality(EnqueuedBy(p)) = 1


\* Connection cn with the field that setter op writes blanked out.
Others(op, cn) ==
    CASE op = "Connection.set_interface" -> [cn EXCEPT !.interface = ""]
      [] op = "Match.set_driver"         -> [cn EXCEPT !.match.driver = <<>>]
      [] op = "Match.set_path"           -> [cn EXCEPT !.match.path = <<>>]
      [] op = "Match.set_interface"      -> [cn EXCEPT !.match.interface = <<>>]
      [] op = "Match.set_kernel"         -> [cn EXCEPT !.match.kernel = <<>>]
      [] op = "Ipv4.set_addresses"       -> [cn EXCEPT !.ipv4.addresses = <<>>]
      [] op = "Ipv4.set_method"          -> [cn EXCEPT !.ipv4.method = "-"]
      [] op = "Ipv4.set_nameservers"     -> [cn EXCEPT !.ipv4.nameservers = <<>>]
      [] op = "Ipv4.set_gateway"         -> [cn EXCEPT !.ipv4.gateway = None]
      [] op = "Ipv6.set_addresses"       -> [cn EXCEPT !.ipv6.addresses = <<>>]
      [] op = "Ipv6.set_method"          -> [cn EXCEPT !.ipv6.method = "-"]
      [] op = "Ipv6.set_nameservers"     -> [cn EXCEPT !.ipv6.nameservers = <<>>]
      [] op = "Ipv6.set_gateway"         -> [cn EXCEPT !.ipv6.gateway = None]
      [] op = "Wireless.set_ssid"        -> [cn EXCEPT !.wireless.ssid = <<>>]
      [] op = "Wireless.set_mode"        -> [cn EXCEPT !.wireless.mode = "-"]
      [] op = "Wireless.set_password"    -> [cn EXCEPT !.wireless.password = None]
      [] op = "Wireless.set_security"    -> [cn EXCEPT !.wireless.security = "-"]

(***************************************************************************)
(* C19: a successful property write changes only the field it targets:     *)
(* every other field of the connection, its Id and the fields of the other *)
(* facets among them, is as before, and the other connections and the      *)
(* registry are unchanged; no call changes the Id of a connection.         *)
(***************************************************************************)
C19_WriteChangesOnlyItsField ==
    /\ \A c \in Conns : conn[c].id = InitialConnection(c).id
    /\ \A c \in Conns : conn[c].kind = InitialConnection(c).kind
    /\ \A p \in Callers :
          (pc[p] = "done" /\ call[p].op \in Setters /\ RightVariant(p)) =>
              /\ Others(call[p].op, post[p]) = Others(call[p].op, pre[p])
              /\ post[p].id = pre[p].id
              /\ conn[call[p].c] = post[p]
              /\ \A c \in Conns \ {call[p].c} : conn[c] = InitialConnection(c)
              /\ objects = InitialRegistry

\* A gateway was written with success on the connection whose method is
\* Manual and whose addresses and nameservers are set: only the gateway
\* differs.
C19_Witness ==
    \E p \in Callers :
        /\ WroteOk(p)
        /\ call[p].op = "Ipv4.set_gateway" /\ call[p].s = "10.0.0.1" /\ call[p].c = 1
        /\ post[p].ipv4.gateway = Some(<<10, 0, 0, 1>>)
        /\ post[p] # pre[p]
        /\ post[p] = [pre[p] EXCEPT !.ipv4.gateway = Some(<<10, 0, 0, 1>>)]
        /\ pre[p].ipv4.method = "Manual" /\ pre[p].ipv4.nameservers # <<>>


(***************************************************************************)
(* C20: a valid write commits its mutation to the shared connection before *)
(* the enqueue is attempted, and nothing rolls it back: when the enqueue   *)
(* fails, or the intent is dropped with the receiver, the connection keeps *)
(* the new value, so it can hold a state for which no UpdateConnection     *)
(* intent was ever delivered.                                              *)
(***************************************************************************)
C20_CommitPrecedesEnqueue ==
    \A p \in Callers :
        (call[p].op \in Setters /\ Pos(commitLog, p) > 0) =>
            /\ conn[call[p].c] = committed[p]
            /\ committed[p] = Setter(call[p], pre[p]).conn
            /\ pc[p] \in {"lock_sender", "send"} => EnqueuedBy(p) = {}
            /\ \A i \in EnqueuedBy(p) : enqLog[i].act = ActionUpdateConnection(committed[p])
            /\ (pc[p] = "done" /\ ret[p].st # "ok") =>
                  /\ ret[p].st = "panic_send"
                  /\ EnqueuedBy(p) = {}
                  /\ delivered = <<>>
                  /\ post[p] = committed[p]

\* The send of a write failed, the receiver being gone: the connection has
\* the new interface name and no intent was enqueued or delivered.
C20_Witness ==
    \E p \in Callers :
        /\ pc[p] = "done" /\ ret[p].st = "panic_send"
        /\ call[p].op = "Connection.set_interface" /\ call[p].s = "eth1"
        /\ pre[p].interface = "eth0"
        /\ conn[call[p].c].interface = "eth1"
        /\ enqLog = <<>> /\ delivered = <<>> /\ closed


\* The device types and their numbers.
DeviceTypeOf(n) ==
    CASE n = 0 -> "Loopback"
      [] n = 1 -> "Ethernet"
      [] n = 2 -> "Wireless"
      [] OTHER -> "-"

(***************************************************************************)
(* C21: AddConnection(id, ty) with a ty that is no known device type       *)
(* returns an error and enqueues no intent; with a known ty the call that  *)
(* returns Ok has enqueued exactly one AddConnection intent, which carries *)
(* the given id and the device type of that number.                        *)
(***************************************************************************)
C21_AddConnectionChecksTheType ==
    \A p \in Callers :
        (pc[p] = "done" /\ call[p].op = "Connections.add_connection") =>
            IF call[p].n \in {0, 1, 2}
            THEN /\ ret[p].st = "ok" \/ (closed /\ ret[p].st = "panic_send")
                 /\ msg[p].type = "AddConnection"
                 /\ msg[p].id = call[p].s
                 /\ msg[p].ty = DeviceTypeOf(call[p].n)
                 /\ ret[p].st = "ok" =>
                       /\ Cardinality(EnqueuedBy(p)) = 1
                       /\ \A i \in EnqueuedBy(p) : enqLog[i].act = msg[p]
            ELSE /\ ret[p].st = "invalid"
                 /\ EnqueuedBy(p) = {}
                 /\ msg[p] = NoAction
                 /\ enqLog = <<>> /\ queue = <<>>
                 /\ sguard[p] = NoAdapter

\* AddConnection("wlan-test", 2) has enqueued one intent for a Wireless
\* connection of that id.
C21_Witness ==
    \E p \in Callers :
        /\ pc[p] = "done" /\ ret[p].st = "ok"
        /\ call[p].op = "Connections.add_connection"
        /\ call[p].s = "wlan-test" /\ call[p].n = 2
        /\ enqLog = <<[by |-> p, act |-> ActionAddConnection("wlan-test", "Wireless")]>>


(***************************************************************************)
(* C22: when a property write has returned success before Apply is called, *)
(* the UpdateConnection intent of the write is enqueued, and received by   *)
(* the backend, before the Apply intent; the same holds for                *)
(* RemoveConnection and AddConnection in place of Apply.                   *)
(***************************************************************************)
C22_EarlierWriteIsDeliveredFirst ==
    \A p, q \in Callers :
        (/\ call[p].op \in QueueOps
         /\ q \in seen[p].after
         /\ WroteOk(q)) =>
            /\ EnqueuedBy(q) # {}
            /\ \A i \in EnqueuedBy(p) : \A j \in EnqueuedBy(q) : j < i
            /\ \A i \in 1..Len(delivered) :
                  enqLog[i].by = p =>
                      \E j \in 1..(i - 1) :
                          /\ enqLog[j].by = q
                          /\ delivered[j] = ActionUpdateConnection(committed[q])

\* A write had returned Ok when Apply was called; the backend has received
\* the intent of the write and then the Apply intent.
C22_Witness ==
    \E p, q \in Callers :
        /\ call[p].op = "Connections.apply" /\ pc[p] = "done" /\ ret[p].st = "ok"
        /\ q \in seen[p].after
        /\ WroteOk(q)
        /\ delivered = <<ActionUpdateConnection(committed[q]), ActionApply>>


(***************************************************************************)
(* C23: concurrent reads, writes, GetConnection, GetConnections,           *)
(* AddConnection, RemoveConnection and Apply calls cannot deadlock while   *)
(* the backend keeps receiving: as long as a call has not returned, a      *)
(* handler or the backend can take a step.  A call asks for the lock of a  *)
(* connection while it holds no lock, asks for a sender while it holds at  *)
(* most the lock of its connection, and a call that reads the registry     *)
(* holds no other lock.                                                    *)
(***************************************************************************)
C23_NoDeadlock ==
    /\ (\E p \in Callers : pc[p] \notin {"idle", "done"}) =>
          \/ ENABLED (\E p \in Callers : HandlerLive(p))
          \/ ENABLED Receive
    /\ \A p \in Callers :
          /\ pc[p] = "lock_conn" => (guard[p] = 0 /\ sguard[p] = NoAdapter)
          /\ pc[p] = "lock_sender" =>
                /\ sguard[p] = NoAdapter
                /\ guard[p] = (IF call[p].op \in Setters THEN call[p].c ELSE 0)
          /\ sguard[p] # NoAdapter =>
                (pc[p] \in {"send", "sent"} /\ sguard[p] = AdapterOf(call[p]))
          /\ (call[p].op \in Setters /\ sguard[p] # NoAdapter) => guard[p] = call[p].c
          /\ call[p].op \in RegistryOps =>
                (guard[p] = 0 /\ sguard[p] = NoAdapter /\ Pos(lockLog, p) = 0)
          /\ pc[p] \in {"idle", "done"} => (guard[p] = 0 /\ sguard[p] = NoAdapter)
    /\ \A c \in Conns : connLock[c] <=> \E p \in Callers : guard[p] = c
    /\ \A a \in Adapters : senderLock[a] <=> \E p \in Callers : sguard[p] = a

\* Every caller is blocked (one on the send with the channel full, the
\* other on the lock of the connection the first holds) and the backend
\* can receive.
C23_Witness ==
    /\ \A p \in Callers : pc[p] \notin {"idle", "done"}
    /\ ~ENABLED (\E p \in Callers : HandlerLive(p))
    /\ ENABLED Receive
    /\ \E p, q \in Callers :
          /\ pc[p] = "send" /\ guard[p] # 0 /\ sguard[p] # NoAdapter
          /\ pc[q] = "lock_conn" /\ call[q].c = guard[p]


(***************************************************************************)
(* C24: every read accessor (Id, Interface, the Match lists, IPv4 and IPv6 *)
(* Addresses, Method, Nameservers, Gateway, and the Wireless fields on a   *)
(* wireless connection) leaves the connection, the registry and the        *)
(* channel unchanged, enqueues no intent and has released the lock of the  *)
(* connection when it returns.                                             *)
(***************************************************************************)
C24_ReadsChangeNothing ==
    \A p \in Callers :
        (pc[p] = "done" /\ call[p].op \in Getters /\ RightVariant(p)) =>
            /\ ret[p].st = "ok"
            /\ post[p] = pre[p]
            /\ conn = [c \in Conns |-> InitialConnection(c)]
            /\ objects = InitialRegistry
            /\ queue = <<>> /\ enqLog = <<>> /\ delivered = <<>>
            /\ msg[p] = NoAction /\ EnqueuedBy(p) = {}
            /\ commitLog = <<>>
            /\ guard[p] = 0 /\ sguard[p] = NoAdapter
            /\ \A c \in Conns : ~connLock[c]
            /\ \A a \in Adapters : ~senderLock[a]

\* The password of the wireless connection has been read: it is still in
\* the connection, whose lock is free.
C24_Witness ==
    \E p \in Callers :
        /\ pc[p] = "done"
        /\ call[p].op = "Wireless.password" /\ call[p].c = 2
        /\ ret[p] = RetS("secret")
        /\ conn[2].wireless.password = Some("secret")
        /\ ~connLock[2]


(***************************************************************************)
(* ProgressMonitor::run, cut at its awaits.                                 *)
(***************************************************************************)

\* main_progress / detail_progress: Progress::from_proxy(..).await.unwrap().
\* The read answers with the service's progress, or it fails and unwrap
\* panics.
main_progress == manager
detail_progress == software

\* presenter.start(&self.main_progress().await): the first statement of run.
\* The variant also tests the flag of the progress it read and finishes at
\* once.
MonitorStartTestingFinished ==
    /\ mpc = "start"
    /\ IF ~reachable
         THEN /\ mpc' = "panicked"
              /\ UNCHANGED <<presented, result>>
         ELSE IF main_progress.finished
           THEN /\ presented' = <<PresenterStart(main_progress), PresenterFinish>>
                /\ mpc' = "returned"
                /\ result' = "ok"
           ELSE /\ presented' = <<PresenterStart(main_progress)>>
                /\ mpc' = "build"
                /\ UNCHANGED result
    /\ UNCHANGED <<manager, software, reachable, subscribed, changes, ended, emitted,
                   consumed>>
    /\ UNCHANGED networkVars

MonitorStart ==
    /\ mpc = "start"
    /\ IF reachable
         THEN /\ presented' = Append(presented, PresenterStart(main_progress))
              /\ mpc' = "build"
         ELSE /\ mpc' = "panicked"
              /\ UNCHANGED presented
    /\ UNCHANGED <<manager, software, reachable, subscribed, changes, ended, emitted,
                   consumed, result>>
    /\ UNCHANGED networkVars

\* build_stream: one stream of current-step changes per proxy, each item
\* tagged with its proxy's path, merged by select_all.  Whether a stream
\* opens with an item for the value the property has is the library's
\* choice: both outcomes are kept.
build_stream ==
    /\ mpc = "build"
    /\ subscribed' = TRUE
    /\ changes' \in {<<>>, <<ManagerPath, SoftwarePath>>}
    /\ mpc' = "next"
    /\ UNCHANGED <<manager, software, reachable, ended, emitted, consumed, presented,
                   result>>
    /\ UNCHANGED networkVars

\* while let Some(stream) = changes.next().await, arm ManagerPath.  The
\* variant never tests the flag.
NextManagerNeverFinishing ==
    /\ mpc = "next"
    /\ changes # <<>>
    /\ Head(changes) = ManagerPath
    /\ changes' = Tail(changes)
    /\ consumed' = Append(consumed, Taken(ManagerPath, reachable, main_progress))
    /\ IF ~reachable
         THEN /\ mpc' = "panicked"
              /\ UNCHANGED presented
         ELSE /\ presented' = Append(presented, PresenterUpdateMain(main_progress))
              /\ UNCHANGED mpc
    /\ UNCHANGED <<manager, software, reachable, subscribed, ended, emitted, result>>
    /\ UNCHANGED networkVars

NextManager ==
    /\ mpc = "next"
    /\ changes # <<>>
    /\ Head(changes) = ManagerPath
    /\ changes' = Tail(changes)
    /\ consumed' = Append(consumed, Taken(ManagerPath, reachable, main_progress))
    /\ IF ~reachable
         THEN /\ mpc' = "panicked"
              /\ UNCHANGED <<presented, result>>
         ELSE IF main_progress.finished
           THEN /\ presented' = Append(presented, PresenterFinish)
                /\ mpc' = "returned"
                /\ result' = "ok"
           ELSE /\ presented' = Append(presented, PresenterUpdateMain(main_progress))
                /\ UNCHANGED <<mpc, result>>
    /\ UNCHANGED <<manager, software, reachable, subscribed, ended, emitted>>
    /\ UNCHANGED networkVars

\* The arm SoftwarePath.  (The arm "_" is never taken: build_stream tags the
\* items with the two proxies' paths only.)
NextSoftware ==
    /\ mpc = "next"
    /\ changes # <<>>
    /\ Head(changes) = SoftwarePath
    /\ changes' = Tail(changes)
    /\ consumed' = Append(consumed, Taken(SoftwarePath, reachable, detail_progress))
    /\ IF reachable
         THEN /\ presented' = Append(presented, PresenterUpdateDetail(detail_progress))
              /\ UNCHANGED mpc
         ELSE /\ mpc' = "panicked"
              /\ UNCHANGED presented
    /\ UNCHANGED <<manager, software, reachable, subscribed, ended, emitted, result>>
    /\ UNCHANGED networkVars

\* changes.next() is None: the loop ends and run returns Ok(()).
StreamIsOver ==
    /\ mpc = "next"
    /\ changes = <<>>
    /\ ended
    /\ mpc' = "returned"
    /\ result' = "ok"
    /\ UNCHANGED <<manager, software, reachable, subscribed, changes, ended, emitted,
                   consumed, presented>>
    /\ UNCHANGED networkVars

(***************************************************************************)
(* The services.  A change of the current step puts an item in the stream  *)
(* once build_stream has subscribed and while the stream has not ended.    *)
(***************************************************************************)
Notified(tag, old, new) ==
    IF subscribed /\ ~ended /\ old.current_step # new.current_step
    THEN Append(changes, tag)
    ELSE changes

ManagerChanges ==
    /\ emitted < MaxEvents
    /\ Len(changes) < MaxPending
    /\ \E p \in Progresses \ {manager} :
         /\ manager' = p
         /\ changes' = Notified(ManagerPath, manager, p)
    /\ emitted' = emitted + 1
    /\ UNCHANGED <<mpc, software, reachable, subscribed, ended, consumed, presented,
                   result>>
    /\ UNCHANGED networkVars

SoftwareChanges ==
    /\ emitted < MaxEvents
    /\ Len(changes) < MaxPending
    /\ \E s \in (0..MaxStep) \ {software.current_step} :
         /\ software' = Progress(s, FALSE)
         /\ changes' = Notified(SoftwarePath, software, software')
    /\ emitted' = emitted + 1
    /\ UNCHANGED <<mpc, manager, reachable, subscribed, ended, consumed, presented,
                   result>>
    /\ UNCHANGED networkVars

StreamEnds ==
    /\ subscribed
    /\ ~ended
    /\ ended' = TRUE
    /\ UNCHANGED <<mpc, manager, software, reachable, subscribed, changes, emitted,
                   consumed, presented, result>>
    /\ UNCHANGED networkVars

ServiceGone ==
    /\ reachable
    /\ reachable' = FALSE
    /\ UNCHANGED <<mpc, manager, software, subscribed, changes, ended, emitted,
                   consumed, presented, result>>
    /\ UNCHANGED networkVars

InitProgress ==
    /\ conn = [c \in Conns |-> InitialConnection(c)]
    /\ connLock = [c \in Conns |-> FALSE]
    /\ guard = [p \in Callers |-> 0]
    /\ senderLock = [a \in Adapters |-> FALSE]
    /\ sguard = [p \in Callers |-> NoAdapter]
    /\ pc = [p \in Callers |-> "idle"]
    /\ call = [p \in Callers |-> NoCall]
    /\ ret = [p \in Callers |-> NoRet]
    /\ msg = [p \in Callers |-> NoAction]
    /\ queue = <<>>
    /\ closed = FALSE
    /\ delivered = <<>>
    /\ pre = [p \in Callers |-> NoConnection]
    /\ committed = [p \in Callers |-> NoConnection]
    /\ post = [p \in Callers |-> NoConnection]
    /\ lockLog = <<>>
    /\ commitLog = <<>>
    /\ enqLog = <<>>
    /\ objects = InitialRegistry
    /\ processed = 0
    /\ seen = [p \in Callers |-> Seen(InitialRegistry, 0, {})]
    /\ \E finished \in BOOLEAN : MonitorInit(finished)

NextProgress ==
    \/ MonitorStart
    \/ build_stream
    \/ NextManager
    \/ NextSoftware
    \/ StreamIsOver
    \/ ManagerChanges
    \/ SoftwareChanges
    \/ StreamEnds
    \/ ServiceGone

SpecProgress == InitProgress /\ [][NextProgress]_vars

\* The presenter call that run makes for an item it took and whose read
\* answered.
PresentedFor(item) ==
    IF item.tag = ManagerPath
    THEN IF item.p.finished THEN PresenterFinish ELSE PresenterUpdateMain(item.p)
    ELSE PresenterUpdateDetail(item.p)

\* The items run took whose read answered; a read that fails ends run in a
\* panic, so such an item is the last one taken.
Answered == SelectSeq(consumed, LAMBDA item : item.ok)

TookFinishedManagerItem ==
    \E i \in 1..Len(consumed) :
        /\ consumed[i].tag = ManagerPath
        /\ consumed[i].ok
        /\ consumed[i].p.finished

\* C26: run does not test the finished flag of the progress it hands to
\* start.  When that progress is finished, run goes on to build the stream
\* and to wait; finish has been called only if run has since taken a manager
\* item; and when run has returned without one, the stream had ended, run
\* returned Ok and finish was never called.
C26_FinishedAtStartIsNotTested ==
    (presented # <<>> /\ presented[1].p[1].finished) =>
        /\ (\E i \in 1..Len(presented) : presented[i].m = "finish")
               = TookFinishedManagerItem
        /\ consumed = <<>> => Len(presented) = 1 /\ mpc \in {"build", "next", "returned"}
        /\ (mpc = "returned" /\ ~TookFinishedManagerItem) =>
               /\ ended
               /\ changes = <<>>
               /\ result = "ok"
               /\ \A i \in 1..Len(presented) : presented[i].m # "finish"

\* The manager had finished when run began, no manager item came before the
\* stream ended, and run returned Ok having called start only.
C26_Witness ==
    /\ presented = <<PresenterStart(Progress(0, TRUE))>>
    /\ consumed = <<>>
    /\ ended
    /\ mpc = "returned"
    /\ result = "ok"

====
